---- MODULE Spec2Model ----
(***************************************************************************)
(* Model of the 911 intake-to-classification pipeline:                     *)
(*   src/api/server.py            webhook processing, voice resolution     *)
(*   src/agentes/emergency_classifier.py   Stage A (service types)         *)
(*   src/agentes/urgency_classifier.py     Stage B (channels, urgency)     *)
(*   src/agentes/rag_service.py            knowledge retrieval             *)
(*                                                                         *)
(* Python values are tagged records: [t |-> "null"], [t |-> "str", s],     *)
(* [t |-> "int", n], [t |-> "float", pct], [t |-> "list", xs].  Floats are *)
(* kept in hundredths (0.8 is pct = 80).  A raised exception is the record *)
(* [t |-> "exc", e]; bytes are [t |-> "bytes", len, head], the length and  *)
(* the leading magic bytes.  The text a language model produces is         *)
(* [t |-> "text", toks], a sequence of                                     *)
(* tokens: LB ("{"), RB ("}"), X (any other run of characters) and JSON    *)
(* members M(key, value).                                                  *)
(*                                                                         *)
(*   src/agentes/vectordb_config.py        the vector store configuration  *)
(*   src/api/config.py                     DatabaseClient                  *)
(*                                                                         *)
(* Specifications: Spec, the webhook pipeline, one event at a time;        *)
(* SpecDecrypt, decrypt_enc called on payloads given byte by byte;         *)
(* SpecContext, the two retrieval functions called on ranked search        *)
(* results; SpecEndpoint, the /send-message endpoint; SpecParser, Stage    *)
(* B's output parser; SpecFormatar, formatar_agencias; SpecStore, the      *)
(* knowledge base under construction and addition; SpecPool, the callers   *)
(* of DatabaseClient interleaved; SpecEvents, two webhook events           *)
(* interleaved at their awaits.                                            *)
(***************************************************************************)
EXTENDS Integers, Sequences, FiniteSets, TLC

\* ---------------------------------------------------------------- bounds
MaxEvents == 1

\* ---------------------------------------------------------- Python values
None == [t |-> "null"]
S(x) == [t |-> "str", s |-> x]
I(x) == [t |-> "int", n |-> x]
F(x) == [t |-> "float", pct |-> x]
L(x) == [t |-> "list", xs |-> x]
Exc(x) == [t |-> "exc", e |-> x]

IsExc(v) == v.t = "exc"

\* bool(v) of Python for the values used here
Truthy(v) ==
    CASE v.t = "null" -> FALSE
      [] v.t = "str" -> v.s # ""
      [] v.t = "int" -> v.n # 0
      [] v.t = "float" -> v.pct # 0
      [] v.t = "list" -> v.xs # <<>>
      [] v.t = "bytes" -> v.len # 0
      [] OTHER -> TRUE

\* decimal strings that int() and float() accept, with their value
NumStr == [s \in {"0", "3", "7"} |-> CASE s = "0" -> 0 [] s = "3" -> 3 [] s = "7" -> 7]

\* int(v): truncation for floats, parsing for strings, TypeError/ValueError otherwise
py_int(v) ==
    CASE v.t = "int" -> I(v.n)
      [] v.t = "float" -> I(v.pct \div 100)
      [] v.t = "str" -> IF v.s \in DOMAIN NumStr THEN I(NumStr[v.s]) ELSE Exc("ValueError")
      [] OTHER -> Exc("TypeError")

\* float(v), in hundredths
py_float(v) ==
    CASE v.t = "int" -> F(v.n * 100)
      [] v.t = "float" -> F(v.pct)
      [] v.t = "str" -> IF v.s \in DOMAIN NumStr THEN F(NumStr[v.s] * 100) ELSE Exc("ValueError")
      [] OTHER -> Exc("TypeError")

\* ------------------------------------------------------- JSON extraction
LB == [c |-> "{"]
RB == [c |-> "}"]
X == [c |-> "x"]
M(key, value) == [c |-> "member", k |-> key, v |-> value]

IsMember(tok) == tok.c = "member"

Positions(text, tok) == {i \in 1..Len(text) : text[i] = tok}

SetMin(P) == CHOOSE i \in P : \A j \in P : i <= j
SetMax(P) == CHOOSE i \in P : \A j \in P : i >= j

\* a variant that stops at the first "}"
json_object_FirstClose(text) ==
    IF Positions(text.toks, LB) = {} \/ Positions(text.toks, RB) = {}
    THEN Exc("JSON nao encontrado")
    ELSE LET a == SetMin(Positions(text.toks, LB))
             b == SetMin(Positions(text.toks, RB))
             inner == SubSeq(text.toks, a + 1, b - 1)
         IN IF a < b /\ \A i \in 1..Len(inner) : IsMember(inner[i])
            THEN [t |-> "dict", members |-> inner]
            ELSE Exc("JSONDecodeError")

\* text.find('{') .. text.rfind('}') + 1, then json.loads: the members of the
\* object, or an exception.  An object is "{" members "}".
json_object(text) ==
    IF Positions(text.toks, LB) = {} \/ Positions(text.toks, RB) = {}
    THEN Exc("JSON nao encontrado")
    ELSE LET a == SetMin(Positions(text.toks, LB))
             b == SetMax(Positions(text.toks, RB))
             inner == SubSeq(text.toks, a + 1, b - 1)
         IN IF a < b /\ \A i \in 1..Len(inner) : IsMember(inner[i])
            THEN [t |-> "dict", members |-> inner]
            ELSE Exc("JSONDecodeError")

\* field in data
HasKey(data, k) == \E i \in 1..Len(data.members) : data.members[i].k = k

\* data[field]: the last member with that key wins
GetKey(data, k) ==
    data.members[SetMax({i \in 1..Len(data.members) : data.members[i].k = k})].v


\* an f-string with one interpolated value
Fmt(template, value) == [t |-> "str", s |-> template, arg |-> value]

\* ------------------------------------------------ Stage A (service types)
\* EmergencyType
EmergencyType == {"samu", "policia", "bombeiro"}

\* output_parser.parse(response.content) for the EmergencyClassification model:
\* the JSON object of the text, validated field by field.  tipos_emergencia is
\* declared List[EmergencyType] with no minimum length, justificativa str,
\* confianca float (numbers and decimal strings are accepted); all three are
\* required.  Any failure is the parser's OutputParserException.
EmergencyClassification_parse(text) ==
    LET data == json_object(text)
    IN IF IsExc(data) THEN Exc("OutputParserException")
       ELSE IF ~ (HasKey(data, "tipos_emergencia") /\ HasKey(data, "justificativa")
                  /\ HasKey(data, "confianca"))
       THEN Exc("OutputParserException")
       ELSE LET tipos == GetKey(data, "tipos_emergencia")
                just == GetKey(data, "justificativa")
                conf == py_float(GetKey(data, "confianca"))
            IN IF /\ tipos.t = "list"
                  /\ \A i \in 1..Len(tipos.xs) :
                        tipos.xs[i].t = "str" /\ tipos.xs[i].s \in EmergencyType
                  /\ just.t = "str"
                  /\ ~ IsExc(conf)
               THEN [t |-> "model", tipos_emergencia |-> tipos.xs,
                     justificativa |-> just, confianca |-> conf]
               ELSE Exc("OutputParserException")

\* the result of the language model call: an exception or the response content
llm_invoke(resp) == IF resp.raises THEN Exc(resp.e) ELSE resp.content

\* the body of the try block of EmergencyClassifierAgent.classify_emergency
EmergencyTry(resp) ==
    LET response == llm_invoke(resp)
    IN IF IsExc(response) THEN response
       ELSE LET parsed_response == EmergencyClassification_parse(response)
            IN IF IsExc(parsed_response) THEN parsed_response
               ELSE [t |-> "dict",
                     tipos_emergencia |-> parsed_response.tipos_emergencia,
                     justificativa |-> parsed_response.justificativa,
                     confianca |-> parsed_response.confianca,
                     status |-> "sucesso"]

\* a variant of the except branch that defaults to the police
EmergencyFallback_Policia(e) ==
    [t |-> "dict",
     status |-> "erro",
     erro |-> e,
     tipos_emergencia |-> <<S("policia")>>,
     justificativa |->
        Fmt("Erro ao processar: {e}. Classificacao padrao: SAMU por seguranca.", e),
     confianca |-> F(0)]

\* the except branch of EmergencyClassifierAgent.classify_emergency
EmergencyFallback(e) ==
    [t |-> "dict",
     status |-> "erro",
     erro |-> e,
     tipos_emergencia |-> <<S("samu")>>,
     justificativa |->
        Fmt("Erro ao processar: {e}. Classificacao padrao: SAMU por seguranca.", e),
     confianca |-> F(0)]

\* a variant of classify_emergency whose except clause catches parser errors only
Emergency_classify_emergency_ParserOnly(resp) ==
    LET r == EmergencyTry(resp)
    IN IF IsExc(r) /\ r.e = "OutputParserException" THEN EmergencyFallback(r.e) ELSE r

\* EmergencyClassifierAgent.classify_emergency
Emergency_classify_emergency(resp) ==
    LET r == EmergencyTry(resp)
    IN IF IsExc(r) THEN EmergencyFallback(r.e) ELSE r


\* --------------------------------------------------- knowledge retrieval
\* score_threshold of search_relevant_context, in hundredths (1.5)
ScoreThreshold == 150
\* max_context_length of get_enhanced_context
MaxContextLength == 2000
\* len("CONTEXTO RELEVANTE DA BASE DE CONHECIMENTO:\n\n")
HeaderLen == 45

\* the two fixed strings of get_enhanced_context, with their lengths
NoContext ==
    [t |-> "str", s |-> "Nenhum contexto especifico encontrado na base de conhecimento.",
     pieces |-> <<>>, len |-> 62]
ErrorContext ==
    [t |-> "str", s |-> "Erro ao acessar base de conhecimento.", pieces |-> <<>>,
     len |-> 37]

\* a variant of the filter: a strict comparison
relevant_Strict(score, score_threshold) == score < score_threshold

\* if score <= score_threshold
relevant(score, score_threshold) == score <= score_threshold

\* max(0, 1 - (score / 2)), in two-hundredths for a distance in hundredths
similarity_score(score) == IF 0 > 200 - score THEN 0 ELSE 200 - score

\* the try block of search_relevant_context.  `store` is the vector store as
\* the query finds it: [t |-> "uninit"], [t |-> "raise"] (the search raises)
\* or [t |-> "ok", results |-> the ranked (content, distance) pairs of the
\* search, at most top_k of them].
SearchTry(store, score_threshold) ==
    IF store.t = "uninit" THEN L(<<>>)
    ELSE IF store.t = "raise" THEN Exc("search")
    ELSE LET kept == SelectSeq(store.results,
                               LAMBDA r : relevant(r.score, score_threshold))
         IN L([i \in 1..Len(kept) |->
                 [content |-> kept[i].content,
                  similarity_score |-> similarity_score(kept[i].score)]])

\* a variant without the except clause
search_relevant_context_Raising(store, score_threshold) ==
    SearchTry(store, score_threshold)

\* RAGService.search_relevant_context
search_relevant_context(store, score_threshold) ==
    LET r == SearchTry(store, score_threshold)
    IN IF IsExc(r) THEN L(<<>>) ELSE r

\* len(f"{i}. {content}\n")
PieceLen(i, content) == (IF i < 10 THEN 1 ELSE 2) + 2 + content.len + 1

\* a variant of the loop that skips a piece over the budget and goes on
RECURSIVE ContextPieces_Continue(_, _, _, _)
ContextPieces_Continue(contexts, i, current_length, max_context_length) ==
    IF i > Len(contexts) THEN <<>>
    ELSE IF current_length + PieceLen(i, contexts[i].content) > max_context_length
    THEN ContextPieces_Continue(contexts, i + 1, current_length, max_context_length)
    ELSE <<[i |-> i, content |-> contexts[i].content]>> \o
         ContextPieces_Continue(contexts, i + 1,
                                current_length + PieceLen(i, contexts[i].content),
                                max_context_length)

\* the loop of get_enhanced_context from entry i on: the pieces appended
RECURSIVE ContextPieces(_, _, _, _)
ContextPieces(contexts, i, current_length, max_context_length) ==
    IF i > Len(contexts) THEN <<>>
    ELSE IF current_length + PieceLen(i, contexts[i].content) > max_context_length
    THEN <<>>
    ELSE <<[i |-> i, content |-> contexts[i].content]>> \o
         ContextPieces(contexts, i + 1,
                       current_length + PieceLen(i, contexts[i].content),
                       max_context_length)

RECURSIVE SumPieces(_)
SumPieces(pieces) ==
    IF pieces = <<>> THEN 0
    ELSE PieceLen(pieces[1].i, pieces[1].content) + SumPieces(Tail(pieces))

\* RAGService.get_enhanced_context: the placeholder, or the header followed by
\* the numbered pieces, stripped (the trailing newlines of the last line go);
\* the error string if the search raised into its except clause.
get_enhanced_context(store, max_context_length) ==
    LET contexts == search_relevant_context(store, ScoreThreshold)
    IN IF IsExc(contexts) THEN ErrorContext
       ELSE IF ~ Truthy(contexts) THEN NoContext
       ELSE LET pieces == ContextPieces(contexts.xs, 1, HeaderLen, max_context_length)
            IN [t |-> "str", s |-> "CONTEXTO RELEVANTE DA BASE DE CONHECIMENTO:",
                pieces |-> pieces,
                len |-> IF pieces = <<>> THEN HeaderLen - 2
                        ELSE HeaderLen + SumPieces(pieces) - 1]

\* ------------------------------------------- Stage B (channels, urgency)
Channels == {"bombeiros", "saude", "policia", "defesa_civil", "transito"}

\* EmergencyOutputParser.parse
EmergencyOutputParser_parse(text) ==
    LET data == json_object(text)
    IN IF IsExc(data) THEN Exc("OutputParserException")
       ELSE IF ~ (HasKey(data, "canal") /\ HasKey(data, "nivel_urgencia")
                  /\ HasKey(data, "justificativa"))
       THEN Exc("OutputParserException")
       ELSE LET canal == GetKey(data, "canal")
                nivel == py_int(GetKey(data, "nivel_urgencia"))
                conf == IF HasKey(data, "confidence_score")
                        THEN py_float(GetKey(data, "confidence_score"))
                        ELSE py_float(F(80))
            IN IF IsExc(nivel) \/ IsExc(conf) THEN Exc("OutputParserException")
               ELSE [t |-> "EmergencyClassification",
                     canal |-> IF canal.t = "list" THEN canal.xs ELSE <<canal>>,
                     nivel_urgencia |-> nivel.n,
                     justificativa |-> GetKey(data, "justificativa"),
                     confidence_score |-> conf]

\* mapeamento_canais.get(tipo, tipo)
mapeamento_canais(tipo) ==
    CASE tipo.s = "samu" -> S("saude")
      [] tipo.s = "policia" -> S("policia")
      [] tipo.s = "bombeiro" -> S("bombeiros")
      [] OTHER -> tipo

\* a variant of the prompt that leaves the prior classification out
UrgencyPrompt_NoHint(store, relato_ocorrencia, emergency_classification) ==
    [context |-> get_enhanced_context(store, MaxContextLength),
     classificacao_previa |-> None,
     ocorrencia |-> relato_ocorrencia]

\* the prompt of UrgencyClassifier.classify_emergency: the retrieved context,
\* followed by the prior classification when one is given, and the report
UrgencyPrompt(store, relato_ocorrencia, emergency_classification) ==
    [context |-> get_enhanced_context(store, MaxContextLength),
     classificacao_previa |->
        IF emergency_classification.t = "dict"
        THEN [t |-> "str",
              tipos |-> emergency_classification.tipos_emergencia,
              canais_sugeridos |->
                 [i \in 1..Len(emergency_classification.tipos_emergencia) |->
                    mapeamento_canais(emergency_classification.tipos_emergencia[i])],
              justificativa |-> emergency_classification.justificativa,
              confianca |-> emergency_classification.confianca]
        ELSE None,
     ocorrencia |-> relato_ocorrencia]

\* the rest of the try block of UrgencyClassifier.classify_emergency
UrgencyTry(resp) ==
    LET response == llm_invoke(resp)
    IN IF IsExc(response) THEN response
       ELSE EmergencyOutputParser_parse(response)

\* a variant of the except branch with Stage A's confidence
UrgencyFallback_Zero(e) ==
    [t |-> "EmergencyClassification",
     canal |-> <<S("saude")>>,
     nivel_urgencia |-> 4,
     justificativa |->
        Fmt("Erro na classificacao automatica: {e}. Direcionado para avaliacao manual urgente.", e),
     confidence_score |-> F(0)]

\* the except branch of UrgencyClassifier.classify_emergency
UrgencyFallback(e) ==
    [t |-> "EmergencyClassification",
     canal |-> <<S("saude")>>,
     nivel_urgencia |-> 4,
     justificativa |->
        Fmt("Erro na classificacao automatica: {e}. Direcionado para avaliacao manual urgente.", e),
     confidence_score |-> F(10)]

\* UrgencyClassifier.classify_emergency, from the oracle call on
Urgency_classify_emergency(resp) ==
    LET r == UrgencyTry(resp)
    IN IF IsExc(r) THEN UrgencyFallback(r.e) ELSE r


\* ------------------------------------------------------ webhook (server)
\* minimum size of a decrypted voice note, in bytes
MinAudioBytes == 100

Bytes(n, h) == [t |-> "bytes", len |-> n, head |-> h]

\* bytes.startswith
startswith(b, prefix) ==
    Len(b) >= Len(prefix) /\ SubSeq(b, 1, Len(prefix)) = prefix

\* the magic numbers the sniff looks for
OggS == <<79, 103, 103, 83>>
ID3 == <<73, 68, 51>>
FFFB == <<255, 251>>
FFF3 == <<255, 243>>
RIFF == <<82, 73, 70, 70>>
ftyp == <<102, 116, 121, 112>>

\* a variant of the sniff that gives up on an unknown header
file_extension_Strict(decrypted) ==
    LET audio_headers == decrypted.head
    IN IF startswith(decrypted.head, OggS) THEN "ogg"
       ELSE IF startswith(audio_headers, ID3) \/ startswith(audio_headers, FFFB)
               \/ startswith(audio_headers, FFF3) THEN "mp3"
       ELSE IF startswith(audio_headers, RIFF) THEN "wav"
       ELSE IF startswith(audio_headers, ftyp) THEN "m4a"
       ELSE "unset"

\* the format sniff of transcribe_audio_from_url
file_extension_of(decrypted) ==
    LET audio_headers == decrypted.head
    IN IF startswith(decrypted.head, OggS) THEN "ogg"
       ELSE IF startswith(audio_headers, ID3) \/ startswith(audio_headers, FFFB)
               \/ startswith(audio_headers, FFF3) THEN "mp3"
       ELSE IF startswith(audio_headers, RIFF) THEN "wav"
       ELSE IF startswith(audio_headers, ftyp) THEN "m4a"
       ELSE "ogg"

\* formatar_agencias: the pieces of the returned string, in order
\* a variant of formatar_agencias that joins every name with ", "
formatar_agencias_Commas(agencias) ==
    LET n == Len(agencias)
        joined[i \in 0..n] ==
           IF i = 0 THEN <<>>
           ELSE IF i = 1 THEN <<agencias[1].s>>
           ELSE joined[i - 1] \o <<", ", agencias[i].s>>
    IN joined[n]

formatar_agencias(agencias) ==
    IF Len(agencias) = 0 THEN <<>>
    ELSE IF Len(agencias) = 1 THEN <<agencias[1].s>>
    ELSE IF Len(agencias) = 2 THEN <<agencias[1].s, " e ", agencias[2].s>>
    ELSE LET n == Len(agencias)
             joined[i \in 1..(n - 1)] ==
                IF i = 1 THEN <<agencias[1].s>>
                ELSE joined[i - 1] \o <<", ", agencias[i].s>>
         IN joined[n - 1] \o <<" e ", agencias[n].s>>

\* a variant of classificar_emergencia that exposes Stage B's channels
Classificacao_Canal(relato, emergency_result, urgency_result) ==
    [t |-> "dict",
     relato |-> relato,
     emergency_classification |-> urgency_result.canal,
     nivel_urgencia |-> urgency_result.nivel_urgencia,
     status |-> "sucesso"]

\* the dict classificar_emergencia returns (its timestamp left out)
Classificacao(relato, emergency_result, urgency_result) ==
    [t |-> "dict",
     relato |-> relato,
     emergency_classification |-> emergency_result.tipos_emergencia,
     nivel_urgencia |-> urgency_result.nivel_urgencia,
     status |-> "sucesso"]

\* backend_data of process_message_event (its timestamp left out)
BackendData(classificacao, parsed_message, contact_number) ==
    [success |-> TRUE,
     emergency_type |-> classificacao.emergency_classification,
     urgency_level |-> classificacao.nivel_urgencia,
     situation |-> parsed_message,
     confidence_score |-> F(90),
     location |-> S("Nao informado"),
     victim |-> None,
     reporter |-> contact_number]

\* message_result of process_message_event
MessageResult(contact_name, classificacao) ==
    [contact_name |-> contact_name,
     agencias_texto |-> formatar_agencias(classificacao.emergency_classification)]


\* ------------------------------------------------------------ the inputs
Unset == [t |-> "unset"]

Jid == [user |-> "5511999999999", server |-> "s.whatsapp.net"]

Event(type, conversation, audioMessage) ==
    [messageType |-> type, conversation |-> conversation,
     audioMessage |-> audioMessage, pushName |-> S("Ana"), remoteJid |-> Jid]

Audio(url, mediaKey) == [t |-> "dict", url |-> url, mediaKey |-> mediaKey]

\* the data of a messages.upsert event; audioMessage = Unset is a payload
\* without that key
Events ==
    { Event("conversation", S("Minha casa esta em chamas"), Unset),
      Event("conversation", S(""), Unset),
      Event("conversation", None, Unset),
      Event("audioMessage", None, Audio(S("https://mmg/v.enc"), S("a2V5"))),
      Event("audioMessage", None, Audio(None, S("a2V5"))),
      Event("audioMessage", None, Audio(S("https://mmg/v.enc"), None)),
      Event("audioMessage", None, Unset),
      Event("imageMessage", None, Unset) }

\* what download_audio_from_url returns: None or the response content
DownloadOutcomes == {None, Bytes(0, <<>>), Bytes(426, <<161, 7, 45, 212>>)}

\* what decrypt_enc returns for the downloaded payload
DecryptOutcomes ==
    {None, Bytes(0, <<>>), Bytes(MinAudioBytes - 1, OggS \o <<0, 2>>)} \cup
    {Bytes(MinAudioBytes, h) : h \in {ID3 \o <<4, 0>>, <<0, 0>>}} \cup
    {Bytes(400, h) : h \in {OggS \o <<0, 2>>, ID3 \o <<3, 0>>, FFFB \o <<144, 100>>,
                            FFF3 \o <<132, 196>>, RIFF \o <<36, 8, 0, 0>>,
                            ftyp \o <<77, 52, 65, 32>>,
                            <<0, 0, 0, 32>> \o ftyp, <<255, 241, 80, 128>>,
                            <<26, 69, 223, 163>>}}

\* what the transcription call does: raises, or returns res.text
TranscribeOutcomes == {Exc("APIError"), S(""), S("socorro, acidente na esquina")}

Raises(e) == [raises |-> TRUE, e |-> e]
Answers(toks) == [raises |-> FALSE, content |-> [t |-> "text", toks |-> toks]]

ObjA(tipos, just, conf) ==
    <<LB, M("tipos_emergencia", tipos), M("justificativa", just), M("confianca", conf), RB>>

\* what the language model does for the Stage A prompt
LLMResponsesA ==
    { Raises("timeout"),
      Answers(<<X>>),
      Answers(<<LB, X, RB>>),
      Answers(ObjA(L(<<S("samu")>>), S("j"), F(90))),
      Answers(ObjA(L(<<S("bombeiro"), S("samu")>>), S("j"), S("0"))),
      Answers(ObjA(L(<<>>), S("j"), F(90))),
      Answers(ObjA(L(<<S("saude")>>), S("j"), F(90))),
      Answers(ObjA(S("samu"), S("j"), F(90))),
      Answers(ObjA(L(<<S("samu")>>), S("j"), S("alta"))),
      Answers(<<LB, M("tipos_emergencia", L(<<S("samu")>>)), M("justificativa", S("j")), RB>>) }

ObjB(canal, nivel, just) ==
    <<LB, M("canal", canal), M("nivel_urgencia", nivel), M("justificativa", just), RB>>

\* what the language model does for the Stage B prompt
LLMResponsesB ==
    { Raises("timeout"),
      Answers(<<X>>),
      Answers(<<LB, X, RB>>),
      Answers(<<RB, X, LB>>),
      Answers(<<X>> \o ObjB(L(<<S("saude")>>), I(3), S("j")) \o <<X>>),
      Answers(<<LB, M("canal", L(<<>>)), M("nivel_urgencia", I(5)),
                M("justificativa", S("j")), M("confidence_score", F(30)), RB>>),
      Answers(ObjB(S("policia"), S("3"), S("j"))),
      Answers(ObjB(L(<<S("xyz")>>), I(6), S("j"))),
      Answers(ObjB(L(<<S("bombeiros"), S("saude")>>), I(0), S("j"))),
      Answers(ObjB(L(<<S("transito")>>), F(470), S("j"))),
      Answers(ObjB(L(<<S("saude")>>), S("alta"), S("j"))),
      Answers(ObjB(L(<<S("saude")>>), None, S("j"))),
      Answers(<<LB, M("canal", L(<<S("saude")>>)), M("nivel_urgencia", I(3)), RB>>),
      Answers(<<LB, M("canal", L(<<S("saude")>>)), M("nivel_urgencia", I(3)),
                M("justificativa", S("j")), M("confidence_score", S("alta")), RB>>),
      Answers(<<LB, M("canal", L(<<S("defesa_civil")>>)), M("nivel_urgencia", I(2)),
                M("justificativa", S("j")), M("nivel_urgencia", I(1)), RB>>) }

Chunk(id, n, score) == [content |-> [id |-> id, len |-> n], score |-> score]

\* the vector store as a query finds it
Stores ==
    { [t |-> "uninit"],
      [t |-> "raise"],
      [t |-> "ok", results |-> <<>>],
      [t |-> "ok", results |-> <<Chunk("far", 500, 170)>>],
      [t |-> "ok", results |-> <<Chunk("fire", 900, 40), Chunk("samu", 1000, 90),
                                 Chunk("far", 500, 170)>>] }


\* ------------------------------------------------- decrypt_enc, byte by byte
\* Bytes objects whose content matters are [t |-> "bytes", len, bs], bs the
\* sequence of byte values 0..255.  A base64 string is [t |-> "str", cs], cs
\* the sequence of its characters: 0..63 an alphabet character by its value,
\* PadChar "=", and NonAlphabet any other character.
BlockSize == 16
MacLen == 10
KeyMaterialLen == 112
PadChar == 64
NonAlphabet == 65

B(bs) == [t |-> "bytes", len |-> Len(bs), bs |-> bs]
B64(cs) == [t |-> "str", cs |-> cs]

\* b[:stop] of Python
SliceTo(b, stop) ==
    LET n == IF stop < 0 THEN Len(b) + stop ELSE stop
    IN SubSeq(b, 1, IF n < 0 THEN 0 ELSE IF n > Len(b) THEN Len(b) ELSE n)

\* base64.b64decode: characters outside the alphabet are discarded, the bits
\* of the others are regrouped in bytes, and a last group that lacks its
\* padding is an error
b64decode(s) ==
    LET d == SelectSeq(s.cs, LAMBDA c : c < PadChar)
        pads == Len(SelectSeq(s.cs, LAMBDA c : c = PadChar))
        rem == Len(d) % 4
        n == (Len(d) \div 4) * 3 + (IF rem = 0 THEN 0 ELSE rem - 1)
        sextet(i) == IF i <= Len(d) THEN d[i] ELSE 0
        byte(k) ==
            LET g == ((k - 1) \div 3) * 4
                j == (k - 1) % 3
            IN CASE j = 0 -> sextet(g + 1) * 4 + (sextet(g + 2) \div 16)
                 [] j = 1 -> (sextet(g + 2) % 16) * 16 + (sextet(g + 3) \div 4)
                 [] j = 2 -> (sextet(g + 3) % 4) * 64 + sextet(g + 4)
    IN IF rem = 1 \/ (rem = 2 /\ pads < 2) \/ (rem = 3 /\ pads < 1)
       THEN Exc("binascii.Error")
       ELSE B([k \in 1..n |-> byte(k)])

\* str.capitalize for the media types
capitalize(media_type) ==
    CASE media_type = "audio" -> "Audio"
      [] media_type = "image" -> "Image"
      [] OTHER -> media_type

RECURSIVE SumBytes(_)
SumBytes(bs) == IF bs = <<>> THEN 0 ELSE Head(bs) + SumBytes(Tail(bs))

\* HKDF(SHA256, length, salt = None, info).derive(key): a fixed function of
\* the label and the key material that yields length bytes
HKDF_derive(length, info, key) ==
    LET label == IF info[2] = "Audio" THEN 19 ELSE IF info[2] = "Image" THEN 23 ELSE 29
        seed == SumBytes(key.bs) * 7 + Len(key.bs) * 3 + label
    IN [i \in 1..length |-> (seed * (i + 2) + i * i * 5 + 11) % 256]

RECURSIVE BitXor(_, _)
BitXor(a, b) ==
    IF a = 0 THEN b
    ELSE IF b = 0 THEN a
    ELSE (((a % 2) + (b % 2)) % 2) + 2 * BitXor(a \div 2, b \div 2)

Block(bs, i) == SubSeq(bs, (i - 1) * BlockSize + 1, i * BlockSize)

\* the block cipher under a 32-byte key: a keyed bijection of the 16-byte
\* blocks, and its inverse
AES_encrypt_block(key, b) ==
    [j \in 1..BlockSize |->
        (b[(j % BlockSize) + 1] + key[j] + key[j + BlockSize]) % 256]

AES_decrypt_block(key, c) ==
    [i \in 1..BlockSize |->
        LET j == IF i = 1 THEN BlockSize ELSE i - 1
        IN (c[j] + 512 - key[j] - key[j + BlockSize]) % 256]

\* AES.new(key, AES.MODE_CBC, iv).decrypt(data): data that is not a whole
\* number of blocks is a ValueError
AES_CBC_decrypt(key, iv, data) ==
    IF Len(data) % BlockSize # 0 THEN Exc("ValueError")
    ELSE B([k \in 1..Len(data) |->
              LET i == ((k - 1) \div BlockSize) + 1
                  j == ((k - 1) % BlockSize) + 1
                  prev == IF i = 1 THEN iv ELSE Block(data, i - 1)
              IN BitXor(AES_decrypt_block(key, Block(data, i))[j], prev[j])])

\* the locals of decrypt_enc
media_key_of(media_key_b64) == b64decode(media_key_b64)
info_of(media_type) == <<"WhatsApp", capitalize(media_type), "Keys">>
full_key_of(media_key, media_type) ==
    HKDF_derive(KeyMaterialLen, info_of(media_type), media_key)
iv_Shifted(full_key) == SubSeq(full_key, 2, 17)
iv_of(full_key) == SliceTo(full_key, 16)
enc_key_of(full_key) == SubSeq(full_key, 17, 48)
payload_of(enc_bytes) == SliceTo(enc_bytes.bs, -MacLen)
decrypted_of(enc_bytes, media_key, media_type) ==
    LET full_key == full_key_of(media_key, media_type)
    IN AES_CBC_decrypt(enc_key_of(full_key), iv_of(full_key), payload_of(enc_bytes))

\* a variant of the size test: if len(enc_bytes) < 10
TooSmall_Less(enc_bytes) == enc_bytes.len < MacLen

\* if len(enc_bytes) <= 10
TooSmall(enc_bytes) == enc_bytes.len <= MacLen

\* a variant of the padding test that never rejects
BadPad_Never(pad, decrypted) == FALSE

\* if pad > len(decrypted)
BadPad(pad, decrypted) == pad > decrypted.len

\* decrypt_enc: what it returns and, in trace, the library calls it made
decrypt_enc(enc_bytes, media_key_b64, media_type) ==
    LET media_key == media_key_of(media_key_b64)
        Failed(trace) == [value |-> None, trace |-> trace]
    IN IF IsExc(media_key) THEN Failed(<<"b64decode">>)
       ELSE IF TooSmall(enc_bytes) THEN Failed(<<"b64decode", "HKDF">>)
       ELSE LET decrypted == decrypted_of(enc_bytes, media_key, media_type)
                trace == <<"b64decode", "HKDF", "AES.new", "decrypt">>
            IN IF IsExc(decrypted) THEN Failed(trace)
               ELSE IF decrypted.len = 0 THEN Failed(trace)
               ELSE LET pad == decrypted.bs[decrypted.len]
                    IN IF BadPad(pad, decrypted) THEN Failed(trace)
                       ELSE [value |-> B(SliceTo(decrypted.bs, -pad)),
                             trace |-> trace]

\* the sender's side: PKCS#7 padding to whole blocks, AES-256-CBC under the
\* iv and cipher key derived from the media key, and the 10-byte MAC trailer
PKCS7_pad(bs) ==
    LET n == BlockSize - (Len(bs) % BlockSize)
    IN bs \o [j \in 1..n |-> n]

RECURSIVE AES_CBC_encrypt(_, _, _)
AES_CBC_encrypt(key, prev, data) ==
    IF data = <<>> THEN <<>>
    ELSE LET c == AES_encrypt_block(key, [j \in 1..BlockSize |-> BitXor(data[j], prev[j])])
         IN c \o AES_CBC_encrypt(key, c, SubSeq(data, BlockSize + 1, Len(data)))

mac_trailer(full_key, ciphertext) ==
    [j \in 1..MacLen |-> (full_key[48 + j] + Len(ciphertext) + j) % 256]

\* the .enc file for the cipher input padded (already padded or not)
enc_file(padded, media_key_b64, media_type) ==
    LET full_key == full_key_of(b64decode(media_key_b64), media_type)
        ciphertext == AES_CBC_encrypt(SubSeq(full_key, 17, 48), SubSeq(full_key, 1, 16),
                                      padded)
    IN B(ciphertext \o mac_trailer(full_key, ciphertext))

whatsapp_encrypt(plain, media_key_b64, media_type) ==
    enc_file(PKCS7_pad(plain.bs), media_key_b64, media_type)

\* ---- the calls of decrypt_enc that are checked
MaxPlainLen == 33
MaxShortLen == 12

Plain(n, seed) == B([i \in 1..n |-> (seed + i * 37) % 256])
Plaintexts == { Plain(n, seed) : n \in 0..MaxPlainLen, seed \in {0, 79} }

\* cipher outputs by their last byte, whatever the sender would have padded
LastBytes == {0, 1, 15, 16, 17, 20, 32, 33, 200, 255}
Raw(n, last) == [i \in 1..n |-> IF i = n THEN last ELSE (i * 3) % 256]

\* payloads that are no sender's file: too short, or not whole blocks
Short(n) == B([i \in 1..n |-> (i * 11) % 256])

ValidKeys == { B64(<<10, 27, 3, 50>>), B64(<<1, 2, 3, 4, NonAlphabet, 5, 6, 8, PadChar>>) }
MediaKeys == ValidKeys \cup { B64(<<1, 2, 3>>), B64(<<7>>) }

DecryptCall(enc_bytes, media_key_b64, media_type, sent) ==
    [fn |-> "decrypt_enc", enc_bytes |-> enc_bytes, media_key_b64 |-> media_key_b64,
     media_type |-> media_type, sent |-> sent]

DecryptArgs ==
    { DecryptCall(whatsapp_encrypt(p, k, "audio"), k2, "audio", p) :
        p \in Plaintexts, k \in ValidKeys, k2 \in MediaKeys }
    \cup { DecryptCall(whatsapp_encrypt(Plain(n, 5), k, "image"), k, "image", Plain(n, 5)) :
             n \in {0, 20}, k \in ValidKeys }
    \cup { DecryptCall(enc_file(Raw(n, last), k, "audio"), k, "audio", Unset) :
             n \in {BlockSize, 2 * BlockSize}, last \in LastBytes, k \in ValidKeys }
    \cup { DecryptCall(Short(n), k, "audio", Unset) :
             n \in (0..MaxShortLen) \cup {26, 27}, k \in MediaKeys }


\* ---- the calls of the retrieval functions that are checked
TopK == 10

\* a ranking of the search: chunks by ascending distance, as the store
\* returns them
Ranking ==
    <<Chunk("fire", 900, 0), Chunk("samu", 1000, 90), Chunk("flood", 30, 150),
      Chunk("far", 500, 151), Chunk("farther", 200, 250)>>

TipIds == <<"t1", "t2", "t3", "t4", "t5", "t6", "t7", "t8", "t9", "t10", "t11">>

\* the entries of ranking picked by the bits of code, in order
RECURSIVE Pick(_, _)
Pick(ranking, code) ==
    IF ranking = <<>> THEN <<>>
    ELSE (IF code % 2 = 1 THEN <<Head(ranking)>> ELSE <<>>) \o
         Pick(Tail(ranking), code \div 2)

ContextStores ==
    { [t |-> "uninit"], [t |-> "raise"] }
    \cup { [t |-> "ok", results |-> Pick(Ranking, code)] : code \in 0..31 }
    \cup { [t |-> "ok",
            results |-> [i \in 1..TopK |-> Chunk(TipIds[i], 40 + i, 10 * i)]] }

MaxContextLengths == {0, 40, 43, 61, 62, 100, 1000, 2000}
ScoreThresholds == {50, ScoreThreshold, 300}

ContextArgs ==
    { [fn |-> "get_enhanced_context", store |-> st, max_context_length |-> n] :
        st \in ContextStores, n \in MaxContextLengths }
    \cup { [fn |-> "search_relevant_context", store |-> st, score_threshold |-> th] :
             st \in ContextStores, th \in ScoreThresholds }


\* ---- the /send-message endpoint
\* classificar_emergencia, given what the two language model calls answer
classificar_emergencia(relato, respA, respB) ==
    Classificacao(relato, Emergency_classify_emergency(respA),
                  Urgency_classify_emergency(respB))

HTTPException(status_code, detail) ==
    [t |-> "HTTPException", status_code |-> status_code, detail |-> detail]

HasKeys(d, keys) == \A k \in keys : k \in DOMAIN d

\* classification_data of send_message_endpoint once the body is accepted:
\* the one the body carries, or the result of classificar_emergencia
classification_data_of(request, respA, respB) ==
    IF ~ Truthy(request.classification_data)
    THEN classificar_emergencia(request.message, respA, respB)
    ELSE request.classification_data

\* send_message_endpoint.  request is the body; classification_data is the
\* local of that name; db_ok is whether create_ocorrencia stores the row,
\* success what the gateway returns.  The result has the response (a dict or
\* the HTTPException raised), the row stored, the message sent and the
\* external calls made.
send_message_endpoint(request, classification_data, db_ok, success) ==
    LET Fails(detail, made) ==
            [response |-> HTTPException(500, detail), row |-> Unset,
             message |-> Unset, made |-> made]
    IN IF ~ Truthy(request.phone_number) \/ ~ Truthy(request.message)
       THEN Fails("400: phone_number e message sao obrigatorios", <<>>)
       ELSE LET classify == ~ Truthy(request.classification_data)
                made == IF classify THEN <<"llmA", "search", "llmB">> ELSE <<>>
            IN IF ~ HasKeys(classification_data,
                            {"emergency_classification", "nivel_urgencia"})
               THEN Fails("KeyError", made)
               ELSE LET original_message ==
                            IF classify \/ ~ HasKeys(classification_data, {"relato"})
                            THEN request.message
                            ELSE classification_data.relato
                        backend_data ==
                            BackendData(classification_data, original_message,
                                        request.phone_number.s)
                        saved_data == IF db_ok THEN backend_data ELSE Unset
                        message == [number |-> request.phone_number.s,
                                    text |-> request.message]
                        all == made \o <<"create_ocorrencia", "send_message">>
                    IN IF saved_data = Unset
                       THEN [response |-> HTTPException(500, "UnboundLocalError"),
                             row |-> Unset,
                             message |-> IF success THEN message ELSE Unset,
                             made |-> all]
                       ELSE [response |->
                                [t |-> "dict",
                                 status |-> IF success THEN "success" ELSE "error",
                                 phone_number |-> request.phone_number,
                                 classification |-> classification_data,
                                 saved_to_database |-> saved_data],
                             row |-> saved_data,
                             message |-> IF success THEN message ELSE Unset,
                             made |-> all]

Dict == [t |-> "dict"]

\* the bodies posted to /send-message
Requests ==
    { [fn |-> "send_message_endpoint", phone_number |-> ph, message |-> msg,
       classification_data |-> cd] :
        ph \in {S("5511999999999"), S("5583988887777"), None},
        msg \in {S("incendio na rua"), S("acidente com vitimas"), S("")},
        cd \in {None, Dict,
                Classificacao(S("fogo"), [tipos_emergencia |-> <<S("bombeiro")>>],
                              [nivel_urgencia |-> I(5)]),
                [t |-> "dict", emergency_classification |-> <<S("bombeiros")>>,
                 nivel_urgencia |-> I(5), status |-> "sucesso"],
                [t |-> "dict", status |-> "sucesso"]} }


\* -------------------------------------------------------------- the state
VARIABLES
    pc,                \* where process_message_event is for the current event
    events,            \* events processed so far
    data,              \* the event being processed
    enc,               \* transcribe_audio_from_url: the downloaded payload
    decrypted,         \* transcribe_audio_from_url: the decrypted buffer
    file_extension,    \* transcribe_audio_from_url: the sniffed format
    parsed_message,    \* what parse_message returned
    emergency_result,  \* classificar_emergencia: Stage A's result
    prompt,            \* Stage B: the prompt handed to the language model
    urgency_result,    \* classificar_emergencia: Stage B's result
    classificacao,     \* what classificar_emergencia returned
    raised,            \* the exception process_message_event caught and logged
    ocorrencias,       \* the rows of the ocorrencias table
    sent,              \* the messages delivered to the messaging gateway
    disk,              \* the files written to the working directory
    calls,             \* history: the external calls made for this event, in order
    caughtA,           \* history: the exception Stage A's except clause caught
    caughtB,           \* history: the exception Stage B's except clause caught
    kb,                \* history: how Stage B's search found the vector store
    at_start,          \* history: the sinks when this event arrived
    audio_name,        \* history: the name of the file given to the transcription
    args,              \* a function called on its own: its arguments
    result,            \* a function called on its own: what it returned
    self,              \* an object called on its own: its attributes
    tasks              \* the coroutines running on the event loop: their locals

vars == <<pc, events, data, enc, decrypted, file_extension, parsed_message,
          emergency_result, prompt, urgency_result, classificacao, raised,
          ocorrencias, sent, disk, calls, caughtA, caughtB, kb, at_start,
          audio_name, args, result, self, tasks>>

voice == <<enc, decrypted, file_extension>>
cascade == <<emergency_result, prompt, urgency_result, classificacao>>
sinks == <<ocorrencias, sent, disk>>
history == <<caughtA, caughtB, kb, at_start, audio_name>>
call == <<args, result, self, tasks>>
objects == <<self, tasks>>

InitPipeline ==
    /\ pc = "idle"
    /\ events = 0
    /\ data = Unset
    /\ enc = Unset
    /\ decrypted = Unset
    /\ file_extension = "unset"
    /\ parsed_message = Unset
    /\ emergency_result = Unset
    /\ prompt = Unset
    /\ urgency_result = Unset
    /\ classificacao = Unset
    /\ raised = Unset
    /\ ocorrencias = <<>>
    /\ sent = <<>>
    /\ disk = <<>>
    /\ calls = <<>>
    /\ caughtA = Unset
    /\ caughtB = Unset
    /\ kb = "unset"
    /\ at_start = [ocorrencias |-> <<>>, sent |-> <<>>, disk |-> <<>>]
    /\ audio_name = Unset

Init ==
    /\ InitPipeline
    /\ args = Unset
    /\ result = Unset
    /\ self = Unset
    /\ tasks = Unset

\* webhook_handler: a messages.upsert event starts process_message_event
Receive(d) ==
    /\ UNCHANGED call
    /\ pc = "idle"
    /\ events < MaxEvents
    /\ data' = d
    /\ pc' = "parse"
    /\ at_start' = [ocorrencias |-> ocorrencias, sent |-> sent, disk |-> disk]
    /\ UNCHANGED <<events, voice, parsed_message, cascade, raised, calls, sinks,
                   caughtA, caughtB, kb, audio_name>>

\* parse_message takes the branch that awaits transcribe_audio_from_url
NeedsTranscription(d) ==
    /\ d.messageType = "audioMessage"
    /\ d.audioMessage # Unset
    /\ Truthy(d.audioMessage.url)
    /\ Truthy(d.audioMessage.mediaKey)

\* parse_message, given what transcribe_audio_from_url returns if awaited
parse_message(d, transcript) ==
    IF d.messageType = "conversation" THEN d.conversation
    ELSE IF d.messageType = "audioMessage"
    THEN IF d.audioMessage = Unset THEN Exc("KeyError")
         ELSE IF Truthy(d.audioMessage.url) /\ Truthy(d.audioMessage.mediaKey)
         THEN transcript
         ELSE None
    ELSE None

\* parse_message returns, or raises into process_message_event's handler
Return(transcript) ==
    LET r == parse_message(data, transcript)
    IN /\ IF IsExc(r)
          THEN /\ raised' = r
               /\ pc' = "done"
               /\ UNCHANGED parsed_message
          ELSE /\ parsed_message' = r
               /\ pc' = "parsed"
               /\ UNCHANGED raised
       /\ enc' = Unset
       /\ decrypted' = Unset
       /\ file_extension' = "unset"

ParseMessage ==
    /\ UNCHANGED call
    /\ pc = "parse"
    /\ IF NeedsTranscription(data)
       THEN /\ pc' = "download"
            /\ UNCHANGED <<voice, parsed_message, raised>>
       ELSE Return(None)
    /\ UNCHANGED <<events, data, cascade, calls, sinks, history>>

\* transcribe_audio_from_url: the download
Download(out) ==
    /\ UNCHANGED call
    /\ pc = "download"
    /\ calls' = Append(calls, "download")
    /\ IF ~ Truthy(out)
       THEN Return(None)
       ELSE /\ enc' = out
            /\ pc' = "decrypt"
            /\ UNCHANGED <<decrypted, file_extension, parsed_message, raised>>
    /\ UNCHANGED <<events, data, cascade, sinks, history>>

\* a variant of the test that accepts every non-empty buffer
DecryptedUsable_NonEmpty(buf) == Truthy(buf)

\* is the decrypted buffer handed to transcription
DecryptedUsable(buf) == Truthy(buf) /\ ~ (buf.len < MinAudioBytes)

\* transcribe_audio_from_url: decrypted = decrypt_enc(enc, media_key)
Decrypt(out) ==
    /\ UNCHANGED call
    /\ pc = "decrypt"
    /\ decrypted' = out
    /\ pc' = "sniff"
    /\ UNCHANGED <<events, data, enc, file_extension, parsed_message, cascade, raised,
                   calls, sinks, history>>

\* transcribe_audio_from_url: the tests on the decrypted buffer and the
\* format sniff
Sniff ==
    /\ UNCHANGED call
    /\ pc = "sniff"
    /\ IF DecryptedUsable(decrypted)
       THEN /\ file_extension' = file_extension_of(decrypted)
            /\ pc' = "transcribe"
            /\ UNCHANGED <<enc, decrypted, parsed_message, raised>>
       ELSE Return(None)
    /\ UNCHANGED <<events, data, cascade, calls, sinks, history>>

\* the except branch of transcribe_audio_from_url: the debug file it leaves.
\* saved is "ok", "partial" (the write failed after the file was created) or
\* "fail" (the file could not be created)
DebugSave(files, buf, ext, saved) ==
    IF buf # Unset /\ ext # "unset" /\ saved # "fail"
    THEN Append(files, [name |-> "debug_audio", ext |-> ext,
                        len |-> IF saved = "ok" THEN buf.len ELSE 0])
    ELSE files

\* a variant that keeps the audio of every voice note
DiskAfterTranscribe_Always(files, out, buf, ext, saved) ==
    DebugSave(files, buf, ext, saved)

\* the working directory after the transcription call
DiskAfterTranscribe(files, out, buf, ext, saved) ==
    IF IsExc(out) THEN DebugSave(files, buf, ext, saved) ELSE files

\* transcribe_audio_from_url: the transcription call and the return
Transcribe(out, saved) ==
    /\ UNCHANGED call
    /\ pc = "transcribe"
    /\ calls' = Append(calls, "transcribe")
    /\ audio_name' = Fmt("voice.{file_extension}", file_extension)
    /\ disk' = DiskAfterTranscribe(disk, out, decrypted, file_extension, saved)
    /\ IF IsExc(out) THEN Return(None) ELSE Return(out)
    /\ UNCHANGED <<events, data, cascade, ocorrencias, sent, caughtA, caughtB, kb,
                   at_start>>

\* a variant of the test: if parsed_message is not None
ShouldClassify_NotNone(message) == message # None

\* process_message_event: if parsed_message
ShouldClassify(message) == Truthy(message)

CheckParsed ==
    /\ UNCHANGED call
    /\ pc = "parsed"
    /\ pc' = IF ShouldClassify(parsed_message) THEN "stageA" ELSE "done"
    /\ UNCHANGED <<events, data, voice, parsed_message, cascade, raised, calls,
                   sinks, history>>

\* the exception an except clause catches, given what its try block produced
Caught(r) == IF IsExc(r) THEN r ELSE Unset

\* classificar_emergencia, step 1: Stage A
StageA(resp) ==
    /\ UNCHANGED call
    /\ pc = "stageA"
    /\ calls' = Append(calls, "llmA")
    /\ caughtA' = Caught(EmergencyTry(resp))
    /\ LET r == Emergency_classify_emergency(resp)
       IN IF IsExc(r)
          THEN /\ raised' = r
               /\ pc' = "done"
               /\ UNCHANGED emergency_result
          ELSE /\ emergency_result' = r
               /\ pc' = "stageB"
               /\ UNCHANGED raised
    /\ UNCHANGED <<events, data, voice, parsed_message, prompt, urgency_result,
                   classificacao, sinks, caughtB, kb, at_start, audio_name>>

\* classificar_emergencia, step 2: Stage B up to its language model call
StageBPrompt(store) ==
    /\ UNCHANGED call
    /\ pc = "stageB"
    /\ calls' = Append(calls, "search")
    /\ kb' = store.t
    /\ prompt' = UrgencyPrompt(store, parsed_message, emergency_result)
    /\ pc' = "llmB"
    /\ UNCHANGED <<events, data, voice, parsed_message, emergency_result,
                   urgency_result, classificacao, raised, sinks, caughtA, caughtB,
                   at_start, audio_name>>

\* classificar_emergencia, step 2: Stage B's language model call and parse
StageBInvoke(resp) ==
    /\ UNCHANGED call
    /\ pc = "llmB"
    /\ calls' = Append(calls, "llmB")
    /\ caughtB' = Caught(UrgencyTry(resp))
    /\ LET r == Urgency_classify_emergency(resp)
       IN IF IsExc(r)
          THEN /\ raised' = r
               /\ pc' = "done"
               /\ UNCHANGED urgency_result
          ELSE /\ urgency_result' = r
               /\ pc' = "fuse"
               /\ UNCHANGED raised
    /\ prompt' = Unset
    /\ UNCHANGED <<events, data, voice, parsed_message, emergency_result,
                   classificacao, sinks, caughtA, kb, at_start, audio_name>>

\* classificar_emergencia, step 3: the dict it returns
Fuse ==
    /\ UNCHANGED call
    /\ pc = "fuse"
    /\ classificacao' = Classificacao(parsed_message, emergency_result, urgency_result)
    /\ pc' = "persist"
    /\ UNCHANGED <<events, data, voice, parsed_message, emergency_result, prompt,
                   urgency_result, raised, calls, sinks, history>>

\* a variant in which a failed create_ocorrencia reaches the outer handler
Persist_Propagates(ok) ==
    /\ UNCHANGED call
    /\ pc = "persist"
    /\ calls' = Append(calls, "create_ocorrencia")
    /\ ocorrencias' =
          IF ok THEN Append(ocorrencias,
                            BackendData(classificacao, parsed_message, data.remoteJid.user))
          ELSE ocorrencias
    /\ pc' = IF ok THEN "send" ELSE "done"
    /\ raised' = IF ok THEN raised ELSE Exc("db_error")
    /\ UNCHANGED <<events, data, voice, parsed_message, cascade, sent, disk,
                   history>>

\* process_message_event: create_ocorrencia, whose failure is logged
Persist(ok) ==
    /\ UNCHANGED call
    /\ pc = "persist"
    /\ calls' = Append(calls, "create_ocorrencia")
    /\ ocorrencias' =
          IF ok THEN Append(ocorrencias,
                            BackendData(classificacao, parsed_message, data.remoteJid.user))
          ELSE ocorrencias
    /\ pc' = "send"
    /\ UNCHANGED <<events, data, voice, parsed_message, cascade, raised, sent, disk,
                   history>>

\* process_message_event: the reply to the reporter
Send(ok) ==
    /\ UNCHANGED call
    /\ pc = "send"
    /\ calls' = Append(calls, "send_message")
    /\ sent' = IF ok THEN Append(sent, [number |-> data.remoteJid.user,
                                        text |-> MessageResult(data.pushName, classificacao)])
               ELSE sent
    /\ pc' = "done"
    /\ UNCHANGED <<events, data, voice, parsed_message, cascade, raised,
                   ocorrencias, disk, history>>

\* process_message_event returns and the webhook answers
Finish ==
    /\ UNCHANGED call
    /\ pc = "done"
    /\ pc' = "idle"
    /\ events' = events + 1
    /\ data' = Unset
    /\ parsed_message' = Unset
    /\ emergency_result' = Unset
    /\ urgency_result' = Unset
    /\ classificacao' = Unset
    /\ raised' = Unset
    /\ calls' = <<>>
    /\ caughtA' = Unset
    /\ caughtB' = Unset
    /\ kb' = "unset"
    /\ audio_name' = Unset
    /\ UNCHANGED <<voice, prompt, sinks, at_start>>

Next ==
    \/ \E d \in Events : Receive(d)
    \/ ParseMessage
    \/ \E out \in DownloadOutcomes : Download(out)
    \/ \E out \in DecryptOutcomes : Decrypt(out)
    \/ Sniff
    \/ \E out \in TranscribeOutcomes, saved \in {"ok", "partial", "fail"} :
          Transcribe(out, saved)
    \/ CheckParsed
    \/ \E resp \in LLMResponsesA : StageA(resp)
    \/ \E store \in Stores : StageBPrompt(store)
    \/ \E resp \in LLMResponsesB : StageBInvoke(resp)
    \/ Fuse
    \/ \E ok \in BOOLEAN : Persist(ok)
    \/ \E ok \in BOOLEAN : Send(ok)
    \/ Finish

Spec == Init /\ [][Next]_vars


pipeline == <<pc, events, data, enc, decrypted, file_extension, parsed_message,
              emergency_result, prompt, urgency_result, classificacao, raised,
              ocorrencias, sent, disk, calls, caughtA, caughtB, kb, at_start,
              audio_name>>

InitDecrypt ==
    /\ InitPipeline
    /\ args \in DecryptArgs
    /\ result = Unset
    /\ self = Unset
    /\ tasks = Unset

CallDecryptEnc ==
    /\ args.fn = "decrypt_enc"
    /\ result = Unset
    /\ result' = decrypt_enc(args.enc_bytes, args.media_key_b64, args.media_type)
    /\ UNCHANGED <<pipeline, args, objects>>

NextDecrypt == CallDecryptEnc

SpecDecrypt == InitDecrypt /\ [][NextDecrypt]_vars

InitContext ==
    /\ InitPipeline
    /\ args \in ContextArgs
    /\ result = Unset
    /\ self = Unset
    /\ tasks = Unset

CallSearch ==
    /\ args.fn = "search_relevant_context"
    /\ result = Unset
    /\ result' = [value |-> search_relevant_context(args.store, args.score_threshold)]
    /\ UNCHANGED <<pipeline, args, objects>>

CallGetEnhancedContext ==
    /\ args.fn = "get_enhanced_context"
    /\ result = Unset
    /\ result' = [value |-> get_enhanced_context(args.store, args.max_context_length)]
    /\ UNCHANGED <<pipeline, args, objects>>

NextContext == CallSearch \/ CallGetEnhancedContext

SpecContext == InitContext /\ [][NextContext]_vars

InitEndpoint ==
    /\ InitPipeline
    /\ args \in Requests
    /\ result = Unset
    /\ self = Unset
    /\ tasks = Unset

\* POST /send-message, from the request to the response
SendMessageEndpoint(respA, respB, db_ok, success) ==
    /\ args.fn = "send_message_endpoint"
    /\ result = Unset
    /\ classificacao' =
          IF Truthy(args.phone_number) /\ Truthy(args.message)
          THEN classification_data_of(args, respA, respB)
          ELSE Unset
    /\ LET r == send_message_endpoint(args, classificacao', db_ok, success)
       IN /\ result' = r.response
          /\ ocorrencias' = IF r.row = Unset THEN ocorrencias
                            ELSE Append(ocorrencias, r.row)
          /\ sent' = IF r.message = Unset THEN sent ELSE Append(sent, r.message)
          /\ calls' = calls \o r.made
    /\ UNCHANGED <<pc, events, data, voice, parsed_message, emergency_result,
                   prompt, urgency_result, raised, disk, history, args, objects>>

NextEndpoint ==
    \E respA \in LLMResponsesA, respB \in LLMResponsesB, db_ok \in BOOLEAN,
       success \in BOOLEAN : SendMessageEndpoint(respA, respB, db_ok, success)

SpecEndpoint == InitEndpoint /\ [][NextEndpoint]_vars

\* the texts Stage B's parser is given: an object, or none, with or without
\* text and stray braces around it
Bodies ==
    { <<>>, <<X>>, <<LB, RB>>, <<LB, X, RB>>,
      ObjB(L(<<S("saude")>>), I(3), S("j")),
      ObjB(S("policia"), S("3"), S("j")),
      ObjB(L(<<S("transito")>>), F(470), S("j")),
      ObjB(L(<<S("saude")>>), S("alta"), S("j")),
      ObjB(L(<<S("saude")>>), None, S("j")),
      <<LB, M("canal", L(<<S("saude")>>)), M("nivel_urgencia", I(3)), RB>>,
      <<LB, M("nivel_urgencia", I(3)), M("justificativa", S("j")), RB>>,
      <<LB, M("canal", L(<<S("saude")>>)), M("justificativa", S("j")), RB>>,
      <<LB, M("canal", L(<<S("saude")>>)), M("nivel_urgencia", I(3)),
        M("justificativa", S("j")), M("confidence_score", S("alta")), RB>>,
      <<LB, M("canal", L(<<S("saude")>>)), M("nivel_urgencia", I(3)),
        M("justificativa", S("j")), M("confidence_score", F(30)), RB>>,
      ObjB(L(<<S("saude")>>), I(3), S("j")) \o <<X>> \o
        ObjB(L(<<S("policia")>>), I(2), S("k")) }

Texts ==
    { [fn |-> "parse", text |-> [t |-> "text", toks |-> pre \o body \o post]] :
        pre \in {<<>>, <<X>>, <<RB, X>>}, body \in Bodies,
        post \in {<<>>, <<X>>, <<X, LB>>, <<X, RB>>} }

InitParser ==
    /\ InitPipeline
    /\ args \in Texts
    /\ result = Unset
    /\ self = Unset
    /\ tasks = Unset

\* self.output_parser.parse(response.content)
CallParse ==
    /\ args.fn = "parse"
    /\ result = Unset
    /\ result' = [value |-> EmergencyOutputParser_parse(args.text)]
    /\ UNCHANGED <<pipeline, args, objects>>

SpecParser == InitParser /\ [][CallParse]_vars

\* ------------------------------------------------ formatar_agencias, alone
\* the lists of agency names handed to formatar_agencias
MaxAgencias == 4
NomesAgencias == { S(x) : x \in EmergencyType }

AgenciasArgs ==
    { [fn |-> "formatar_agencias", agencias |-> xs] :
        xs \in UNION { [1..n -> NomesAgencias] : n \in 0..MaxAgencias } }

InitFormatar ==
    /\ InitPipeline
    /\ args \in AgenciasArgs
    /\ result = Unset
    /\ self = Unset
    /\ tasks = Unset

\* agencias_texto = formatar_agencias(agencias)
CallFormatar ==
    /\ args.fn = "formatar_agencias"
    /\ result = Unset
    /\ result' = [value |-> formatar_agencias(args.agencias)]
    /\ UNCHANGED <<pipeline, args, objects>>

SpecFormatar == InitFormatar /\ [][CallFormatar]_vars

\* --------------------------------------------- the knowledge base, alone
\* A RAGService is [vector_store, collection]: its vector_store attribute
\* and the chunks of the Chroma collection that attribute gives access to.
\* A document is the sequence of chunks the text splitter yields for it.
MaxStore == 9
Chroma == [t |-> "Chroma"]

\* the methods class VectorDBConfig defines
VectorDBConfig_methods ==
    {"get_chroma_client", "get_chroma_client_with_mode", "get_vector_store",
     "create_collection_if_not_exists", "get_connection_info",
     "test_connection", "test_embeddings", "test_vector_store_operations",
     "test_collection_stats", "cleanup_test_data", "check_chroma_version",
     "clean_old_chroma_data", "provide_troubleshooting_tips",
     "run_full_test_suite", "test_raw_chroma_client", "test_all_client_modes"}

\* self.db_config.<name>(...): looking up a name the class does not define
\* raises AttributeError
db_config_call(name) ==
    IF name \in VectorDBConfig_methods THEN None ELSE Exc("AttributeError")

\* the loop that splits the documents in chunks and builds doc_objects
RECURSIVE doc_objects_from(_, _)
doc_objects_from(documents, i) ==
    IF i > Len(documents) THEN <<>>
    ELSE [j \in 1..Len(documents[i]) |->
            [page_content |-> documents[i][j], chunk_index |-> <<i - 1, j - 1>>]]
         \o doc_objects_from(documents, i + 1)

doc_objects(documents) == doc_objects_from(documents, 1)

\* add_documents_to_knowledge_base: what it returns and the service after it.
\* embed_ok is whether self.vector_store.add_documents succeeds.
add_documents_to_knowledge_base(rag, documents, embed_ok) ==
    IF documents = <<>> THEN [value |-> FALSE, rag |-> rag]
    ELSE IF ~ Truthy(rag.vector_store) THEN [value |-> FALSE, rag |-> rag]
    ELSE IF ~ embed_ok THEN [value |-> FALSE, rag |-> rag]
    ELSE LET added == [rag EXCEPT !.collection = @ \o doc_objects(documents)]
             saved == db_config_call("save_vector_store")
         IN IF IsExc(saved) THEN [value |-> FALSE, rag |-> added]
            ELSE [value |-> TRUE, rag |-> added]

\* dict.get(key, default)
dict_get(d, key, default) == IF key \in DOMAIN d THEN d[key] ELSE default

\* get_stats
get_stats(rag) ==
    IF ~ Truthy(rag.vector_store) THEN [error |-> "Vector store nao inicializado"]
    ELSE LET index_stats == db_config_call("get_index_stats")
         IN IF IsExc(index_stats) THEN [error |-> index_stats.e]
            ELSE [vector_store_initialized |-> TRUE,
                  index_stats |-> index_stats,
                  database_type |-> "FAISS"]

\* the four texts of populate_initial_knowledge_base
initial_documents ==
    << <<"bombeiros">>, <<"saude">>, <<"policia">>, <<"keywords">> >>

populate_initial_knowledge_base(rag, embed_ok) ==
    add_documents_to_knowledge_base(rag, initial_documents, embed_ok)

\* UrgencyClassifier._ensure_knowledge_base: the service after it
ensure_knowledge_base(rag, embed_ok) ==
    LET stats == get_stats(rag)
    IN IF dict_get(stats, "total_documents", 0) = 0
       THEN populate_initial_knowledge_base(rag, embed_ok).rag
       ELSE rag

\* the documents handed to add_documents_to_knowledge_base by other callers
Documents == { <<>>, << <<"a">> >>, << <<"a">>, <<"b1", "b2">> >> }

InitStore ==
    /\ InitPipeline
    /\ args = Unset
    /\ result = Unset
    /\ self = [vector_store |-> None, collection |-> <<>>]
    /\ tasks = Unset

\* urgency_classifier = UrgencyClassifier(): RAGService() obtains the vector
\* store or raises, then _ensure_knowledge_base runs
ConstructUrgencyClassifier(init_ok, embed_ok) ==
    /\ args' = [fn |-> "UrgencyClassifier", init_ok |-> init_ok, embed_ok |-> embed_ok]
    /\ Len(self.collection) + Len(doc_objects(initial_documents)) <= MaxStore
    /\ IF init_ok
       THEN /\ self' = ensure_knowledge_base([self EXCEPT !.vector_store = Chroma], embed_ok)
            /\ result' = [value |-> None]
       ELSE /\ self' = self
            /\ result' = [value |-> Exc("get_vector_store")]
    /\ UNCHANGED <<pipeline, tasks>>

\* self.rag_service.add_documents_to_knowledge_base(documents, metadatas)
AddDocuments(documents, embed_ok) ==
    /\ args' = [fn |-> "add_documents_to_knowledge_base",
                documents |-> documents, embed_ok |-> embed_ok]
    /\ Len(self.collection) + Len(doc_objects(documents)) <= MaxStore
    /\ LET r == add_documents_to_knowledge_base(self, documents, embed_ok)
       IN /\ self' = r.rag
          /\ result' = [value |-> r.value]
    /\ UNCHANGED <<pipeline, tasks>>

NextStore ==
    \/ \E init_ok \in BOOLEAN, embed_ok \in BOOLEAN :
          ConstructUrgencyClassifier(init_ok, embed_ok)
    \/ \E documents \in Documents, embed_ok \in BOOLEAN :
          AddDocuments(documents, embed_ok)

SpecStore == InitStore /\ [][NextStore]_vars

\* ---------------------------------------------------- DatabaseClient, alone
\* The client is [pool, created]: its pool attribute, and the state of every
\* pool asyncpg.create_pool has returned so far.  Each caller is a coroutine
\* [op, pc, n, p]: the method it runs, the await it is suspended at, the
\* calls it has made and the pool its pending self.pool.close() is closing.
NumCallers == 2
MaxCalls == 2
MaxPools == 3
Callers == 1..NumCallers
Pool(i) == [t |-> "Pool", id |-> i]
Idle(n) == [op |-> "none", pc |-> "idle", n |-> n, p |-> Unset]

InitPool ==
    /\ InitPipeline
    /\ args = Unset
    /\ result = Unset
    /\ self = [pool |-> None, created |-> <<>>]
    /\ tasks = [c \in Callers |-> Idle(0)]

\* if self.pool is None
MustCreate == self.pool = None

\* await db_client.connect(), up to the await of asyncpg.create_pool
Connect(c) ==
    /\ tasks[c].pc = "idle"
    /\ tasks[c].n < MaxCalls
    /\ tasks' = [tasks EXCEPT ![c] =
          IF MustCreate
          THEN [op |-> "connect", pc |-> "create_pool", n |-> @.n + 1, p |-> Unset]
          ELSE Idle(@.n + 1)]
    /\ UNCHANGED <<pipeline, args, result, self>>

\* async with self.get_connection(), up to its first await: create_pool
\* when it finds no pool, the acquire of the pool otherwise
GetConnection(c) ==
    /\ tasks[c].pc = "idle"
    /\ tasks[c].n < MaxCalls
    /\ tasks' = [tasks EXCEPT ![c] =
          IF MustCreate
          THEN [op |-> "get_connection", pc |-> "create_pool", n |-> @.n + 1, p |-> Unset]
          ELSE [op |-> "get_connection", pc |-> "acquire", n |-> @.n + 1, p |-> self.pool]]
    /\ UNCHANGED <<pipeline, args, result, self>>

\* asyncpg.create_pool returns: connect assigns self.pool, and
\* get_connection goes on to acquire; or it raises
CreatePoolReturns(c, ok) ==
    /\ tasks[c].pc = "create_pool"
    /\ IF ok
       THEN /\ Len(self.created) < MaxPools
            /\ self' = [pool |-> Pool(Len(self.created) + 1),
                        created |-> Append(self.created, "open")]
            /\ tasks' = [tasks EXCEPT ![c] =
                  IF @.op = "get_connection"
                  THEN [@ EXCEPT !.pc = "acquire", !.p = Pool(Len(self.created) + 1)]
                  ELSE Idle(@.n)]
       ELSE /\ self' = self
            /\ tasks' = [tasks EXCEPT ![c] = Idle(@.n)]
    /\ UNCHANGED <<pipeline, args, result>>

\* the connection is acquired, used and released, or the acquire raises
AcquireReturns(c) ==
    /\ tasks[c].pc = "acquire"
    /\ tasks' = [tasks EXCEPT ![c] = Idle(@.n)]
    /\ UNCHANGED <<pipeline, args, result, self>>

\* await db_client.disconnect(), up to the await of self.pool.close()
Disconnect(c) ==
    /\ tasks[c].pc = "idle"
    /\ tasks[c].n < MaxCalls
    /\ tasks' = [tasks EXCEPT ![c] =
          IF Truthy(self.pool)
          THEN [op |-> "disconnect", pc |-> "close", n |-> @.n + 1, p |-> self.pool]
          ELSE Idle(@.n + 1)]
    /\ UNCHANGED <<pipeline, args, result, self>>

\* self.pool.close() returns and disconnect assigns self.pool = None
CloseReturns(c) ==
    /\ tasks[c].pc = "close"
    /\ self' = [pool |-> None,
                created |-> [self.created EXCEPT ![tasks[c].p.id] = "closed"]]
    /\ tasks' = [tasks EXCEPT ![c] = Idle(@.n)]
    /\ UNCHANGED <<pipeline, args, result>>

NextPool ==
    \E c \in Callers :
       \/ Connect(c)
       \/ GetConnection(c)
       \/ \E ok \in BOOLEAN : CreatePoolReturns(c, ok)
       \/ AcquireReturns(c)
       \/ Disconnect(c)
       \/ CloseReturns(c)

SpecPool == InitPool /\ [][NextPool]_vars

\* ------------------------------------------- two webhook events at once
\* Each inbound event runs process_message_event as a coroutine of the event
\* loop; a coroutine gives way to the other only at an await.  A coroutine is
\* its locals; the knowledge base, read by Stage B of both, is
\* self.knowledge_base: for each text, the vector store as its query finds it.
Coroutines == {"first", "second"}

Relatos == {S("Minha casa esta em chamas"), S("assalto na esquina")}

InboundEvents ==
    { Event("conversation", r, Unset) : r \in Relatos } \cup
    { Event("audioMessage", None, Audio(S("https://mmg/v.enc"), S("a2V5"))) }

Transcripts == {None, S("socorro, acidente na esquina")}

OracleA ==
    { Raises("timeout"),
      Answers(ObjA(L(<<S("bombeiro"), S("samu")>>), S("j"), F(90))) }

OracleB ==
    { Answers(<<X>>),
      Answers(ObjB(L(<<S("bombeiros")>>), I(5), S("j"))) }

KnowledgeBases ==
    { [r \in Relatos \cup Transcripts |-> st] :
        st \in { [t |-> "raise"],
                 [t |-> "ok", results |-> <<Chunk("fire", 900, 40)>>] } }

Arrived ==
    [pc |-> "idle", d |-> Unset, parsed_message |-> Unset, respA |-> Unset,
     respB |-> Unset, prompt |-> Unset, classificacao |-> Unset]

\* process_message_event from the return of parse_message to its next await:
\* the test of parsed_message and the whole of classificar_emergencia, which
\* has no await
classified(task, message, respA, respB, knowledge_base) ==
    IF ~ ShouldClassify(message)
    THEN [task EXCEPT !.parsed_message = message, !.pc = "done"]
    ELSE LET emergency == Emergency_classify_emergency(respA)
         IN [task EXCEPT
               !.parsed_message = message,
               !.respA = respA,
               !.respB = respB,
               !.prompt = UrgencyPrompt(knowledge_base[message], message, emergency),
               !.classificacao =
                  Classificacao(message, emergency, Urgency_classify_emergency(respB)),
               !.pc = "persist"]

InitEvents ==
    /\ InitPipeline
    /\ args = Unset
    /\ result = Unset
    /\ self \in { [knowledge_base |-> k] : k \in KnowledgeBases }
    /\ tasks = [c \in Coroutines |-> Arrived]

\* a variant of Classify that keeps the classification in a variable of the
\* module, shared by the coroutines
Classify_Global(c, message, respA, respB) ==
    LET mine == classified(tasks[c], message, respA, respB, self.knowledge_base)
    IN tasks' = [o \in Coroutines |->
                   IF o = c THEN mine
                   ELSE IF tasks[o].classificacao # Unset /\ mine.classificacao # Unset
                   THEN [tasks[o] EXCEPT !.classificacao = mine.classificacao]
                   ELSE tasks[o]]

\* the coroutine runs from the return of parse_message to its next await
Classify(c, message, respA, respB) ==
    tasks' = [tasks EXCEPT ![c] =
                 classified(@, message, respA, respB, self.knowledge_base)]

\* webhook_handler starts process_message_event: a text is classified at
\* once, a voice note waits for its download
Webhook(c, d, respA, respB) ==
    /\ tasks[c].pc = "idle"
    /\ IF d.messageType = "conversation"
       THEN Classify(c, parse_message(d, Unset), respA, respB)
       ELSE tasks' = [tasks EXCEPT ![c] = [@ EXCEPT !.pc = "transcribe"]]
    /\ UNCHANGED <<pipeline, args, result, self>>

\* transcribe_audio_from_url returns to parse_message
Transcribed(c, transcript, respA, respB) ==
    /\ tasks[c].pc = "transcribe"
    /\ Classify(c, transcript, respA, respB)
    /\ UNCHANGED <<pipeline, args, result, self>>

\* create_ocorrencia returns or raises
PersistReturns(c, ok) ==
    /\ tasks[c].pc = "persist"
    /\ ocorrencias' =
          IF ok THEN Append(ocorrencias,
                            BackendData(tasks[c].classificacao,
                                        tasks[c].parsed_message, Jid.user))
          ELSE ocorrencias
    /\ tasks' = [tasks EXCEPT ![c] = [@ EXCEPT !.pc = "send"]]
    /\ UNCHANGED <<pc, events, data, voice, parsed_message, cascade, raised, sent,
                   disk, calls, history, args, result, self>>

\* evolution_client.send_message returns
SendReturns(c, ok) ==
    /\ tasks[c].pc = "send"
    /\ sent' = IF ok THEN Append(sent, [number |-> Jid.user,
                                        text |-> MessageResult(S("Ana"),
                                                               tasks[c].classificacao)])
               ELSE sent
    /\ tasks' = [tasks EXCEPT ![c] = [@ EXCEPT !.pc = "done"]]
    /\ UNCHANGED <<pc, events, data, voice, parsed_message, cascade, raised,
                   ocorrencias, disk, calls, history, args, result, self>>

NextEvents ==
    \E c \in Coroutines :
       \/ \E d \in InboundEvents, respA \in OracleA, respB \in OracleB :
             Webhook(c, d, respA, respB)
       \/ \E transcript \in Transcripts, respA \in OracleA, respB \in OracleB :
             Transcribed(c, transcript, respA, respB)
       \/ \E ok \in BOOLEAN : PersistReturns(c, ok)
       \/ \E ok \in BOOLEAN : SendReturns(c, ok)

SpecEvents == InitEvents /\ [][NextEvents]_vars


\* ------------------------------------------------------------ properties
Called(name) == \E i \in 1..Len(calls) : calls[i] = name

CascadeCalls == SelectSeq(calls, LAMBDA c : c \in {"llmA", "search", "llmB"})

\* parse_message came back with a text the event can be classified by
Resolved == parsed_message # Unset /\ Truthy(parsed_message)

\* the current event is a voice note whose resolution has ended without a text
VoiceFailed ==
    /\ pc \in {"parsed", "done"}
    /\ NeedsTranscription(data)
    /\ parsed_message # Unset
    /\ ~ Truthy(parsed_message)

\* the transcription call of the current event raised
TranscriptionRaised == Called("transcribe") /\ parsed_message = None

\* C1: whatever the language model and the retrieval do, Stage A, Stage B and
\* classificar_emergencia each return a classification: once Stage A has been
\* called no exception reaches process_message_event, Stage A's result is a
\* dict as soon as its call is over, Stage B's a classification, and the dict
\* of classificar_emergencia follows.
C1_CascadeNeverRaises ==
    /\ Called("llmA") => raised = Unset
    /\ Called("llmA") => emergency_result.t = "dict"
    /\ Called("llmB") => urgency_result.t = "EmergencyClassification"
    /\ pc \in {"persist", "send"} => classificacao.t = "dict"

C1_Witness ==
    /\ pc = "persist"
    /\ caughtA # Unset
    /\ caughtB # Unset
    /\ classificacao.t = "dict"

\* C2: the service-type list Stage A returns, and classificar_emergencia
\* exposes as emergency_classification, is never empty.
C2_ServiceTypesNonEmpty ==
    /\ emergency_result # Unset => Len(emergency_result.tipos_emergencia) > 0
    /\ classificacao # Unset => Len(classificacao.emergency_classification) > 0

\* C3 as stated: the set exposed as emergency_classification, persisted as
\* emergency_type and named in the reply, is Stage B's channel list.
C3_ExposesStageB ==
    [][/\ pc = "fuse" =>
            classificacao'.emergency_classification = urgency_result.canal
       /\ (pc = "persist" /\ ocorrencias' # ocorrencias) =>
            ocorrencias'[Len(ocorrencias')].emergency_type = urgency_result.canal
       /\ (pc = "send" /\ sent' # sent) =>
            sent'[Len(sent')].text.agencias_texto = formatar_agencias(urgency_result.canal)
      ]_vars

\* C3 amended: the set exposed as emergency_classification, persisted as
\* emergency_type and named in the reply, is Stage A's service-type list.
C3_ExposesStageA ==
    [][/\ pc = "fuse" =>
            classificacao'.emergency_classification = emergency_result.tipos_emergencia
       /\ (pc = "persist" /\ ocorrencias' # ocorrencias) =>
            ocorrencias'[Len(ocorrencias')].emergency_type
               = emergency_result.tipos_emergencia
       /\ (pc = "send" /\ sent' # sent) =>
            sent'[Len(sent')].text.agencias_texto
               = formatar_agencias(emergency_result.tipos_emergencia)
      ]_vars

C3_Witness ==
    /\ pc = "done"
    /\ ocorrencias # at_start.ocorrencias
    /\ sent # at_start.sent
    /\ classificacao.emergency_classification = <<S("bombeiro"), S("samu")>>
    /\ urgency_result.canal = <<S("transito")>>

\* C4 as stated: when Stage B's retrieval, oracle call or parsing fails, the
\* result is canal = [saude], nivel_urgencia = 4, confidence_score = 0.0.
C4_FallbackZeroConfidence ==
    (urgency_result # Unset /\ (kb # "ok" \/ caughtB # Unset)) =>
        /\ urgency_result.canal = <<S("saude")>>
        /\ urgency_result.nivel_urgencia = 4
        /\ urgency_result.confidence_score = F(0)

\* C4 amended: when Stage B's oracle call or output parsing fails, the result
\* is canal = [saude], nivel_urgencia = 4, confidence_score = 0.1; a failed
\* retrieval alone is no failure of Stage B.
C4_FallbackB ==
    (urgency_result # Unset /\ caughtB # Unset) =>
        /\ urgency_result.canal = <<S("saude")>>
        /\ urgency_result.nivel_urgencia = 4
        /\ urgency_result.confidence_score = F(10)

C4_Witness ==
    /\ urgency_result # Unset
    /\ caughtB = Exc("OutputParserException")
    /\ kb = "ok"

\* C5: when Stage A's oracle call raises or its output fails parsing or
\* validation, the result is tipos_emergencia = [samu], confianca = 0.0 and a
\* justification naming the error and the default SAMU routing.
C5_FallbackA ==
    (emergency_result # Unset /\ caughtA # Unset) =>
        /\ emergency_result.tipos_emergencia = <<S("samu")>>
        /\ emergency_result.confianca = F(0)
        /\ emergency_result.justificativa.arg = caughtA.e
        /\ emergency_result.justificativa.s =
              "Erro ao processar: {e}. Classificacao padrao: SAMU por seguranca."

C5_Witness ==
    /\ emergency_result # Unset
    /\ caughtA = Exc("OutputParserException")

\* C6: the cascade is linear.  The calls of one event are Stage A's oracle
\* call, the search, Stage B's oracle call, each at most once and in that
\* order; when Stage B's oracle call is issued Stage A has returned and the
\* prompt carries Stage A's result as the prior classification (samu and 0.0
\* when Stage A fell back); an event whose Stage A ran ends with Stage B run.
C6_LinearCascade ==
    /\ \E n \in 0..3 : CascadeCalls = SubSeq(<<"llmA", "search", "llmB">>, 1, n)
    /\ pc = "llmB" =>
          /\ emergency_result.t = "dict"
          /\ prompt.classificacao_previa # None
          /\ prompt.classificacao_previa.tipos = emergency_result.tipos_emergencia
          /\ prompt.classificacao_previa.confianca = emergency_result.confianca
          /\ caughtA # Unset =>
                /\ prompt.classificacao_previa.tipos = <<S("samu")>>
                /\ prompt.classificacao_previa.confianca = F(0)
    /\ (pc = "done" /\ Called("llmA")) => CascadeCalls = <<"llmA", "search", "llmB">>

C6_Witness ==
    /\ pc = "llmB"
    /\ caughtA # Unset
    /\ prompt.classificacao_previa.canais_sugeridos = <<S("saude")>>

\* C7: the urgency level Stage B returns, and classificar_emergencia
\* exposes, is between 1 and 5.
C7_UrgencyInRange ==
    /\ urgency_result # Unset => urgency_result.nivel_urgencia \in 1..5
    /\ classificacao # Unset => classificacao.nivel_urgencia \in 1..5

\* C8: the channel list Stage B returns is non-empty and each element is one
\* of the five channel values.
C8_ChannelsValid ==
    urgency_result # Unset =>
        /\ Len(urgency_result.canal) > 0
        /\ \A i \in 1..Len(urgency_result.canal) :
              /\ urgency_result.canal[i].t = "str"
              /\ urgency_result.canal[i].s \in Channels

\* C9: when the text of the message is not resolved, neither stage is called,
\* no row is persisted and no reply is sent for the event.
C9_UnresolvedNoEffects ==
    (pc = "done" /\ ~ Resolved) =>
        /\ ~ Called("llmA") /\ ~ Called("search") /\ ~ Called("llmB")
        /\ ~ Called("create_ocorrencia") /\ ~ Called("send_message")
        /\ emergency_result = Unset /\ urgency_result = Unset
        /\ ocorrencias = at_start.ocorrencias
        /\ sent = at_start.sent

C9_Witness ==
    /\ pc = "done"
    /\ parsed_message = S("")
    /\ Called("transcribe")

\* C10 as stated: when voice resolution fails at any step, nothing is written
\* to disk or storage.
C10_FailureLeavesNothing ==
    VoiceFailed =>
        /\ disk = at_start.disk
        /\ ocorrencias = at_start.ocorrencias

\* C10 amended: when voice resolution fails without the transcription call
\* raising (download, decryption, size check, empty transcript), nothing is
\* written to disk or storage; storage is untouched in every failure.
C10_FailureBeforeRaiseLeavesNothing ==
    VoiceFailed =>
        /\ ~ TranscriptionRaised => disk = at_start.disk
        /\ ocorrencias = at_start.ocorrencias
        /\ sent = at_start.sent

C10_Witness ==
    /\ VoiceFailed
    /\ Called("transcribe")
    /\ parsed_message = S("")


\* ----------------------------------------------- properties of decrypt_enc
\* the call of decrypt_enc has returned
DecryptReturned == args # Unset /\ args.fn = "decrypt_enc" /\ result # Unset

\* what cipher.decrypt returned in the call, None if the call never got there
CipherOutput ==
    LET k == media_key_of(args.media_key_b64)
    IN IF IsExc(k) \/ TooSmall(args.enc_bytes) THEN None
       ELSE decrypted_of(args.enc_bytes, k, args.media_type)

HasPadByte == CipherOutput.t = "bytes" /\ CipherOutput.len > 0

\* the last decrypted byte, read as the padding length
PadByte == CipherOutput.bs[CipherOutput.len]

\* the payload is the file the sender makes of args.sent under the media key
SenderFile ==
    /\ args.sent # Unset
    /\ ~ IsExc(media_key_of(args.media_key_b64))
    /\ args.enc_bytes = whatsapp_encrypt(args.sent, args.media_key_b64, args.media_type)

\* C11: whenever the last decrypted byte p is 0 or greater than the 16-byte
\* block size, unpadding fails: decrypt_enc returns None, no data.
C11_BadPaddingFails ==
    (DecryptReturned /\ HasPadByte /\ (PadByte = 0 \/ PadByte > 16)) =>
        result.value = None

\* C12: when the last decrypted byte, read as the padding length, exceeds the
\* length of the decrypted buffer, decrypt_enc returns None instead of
\* truncated or garbage data.
C12_PadBeyondBufferFails ==
    (DecryptReturned /\ HasPadByte /\ PadByte > CipherOutput.len) =>
        result.value = None

C12_Witness ==
    /\ DecryptReturned /\ HasPadByte
    /\ PadByte > CipherOutput.len
    /\ CipherOutput.len = 2 * BlockSize
    /\ result.value = None

\* C13: for every media key, valid base64 or not, an encrypted payload of 10
\* bytes or fewer makes decrypt_enc return None without creating or calling
\* the AES cipher.
C13_ShortPayloadNoCipher ==
    (DecryptReturned /\ args.enc_bytes.len <= 10) =>
        /\ result.value = None
        /\ \A i \in 1..Len(result.trace) : result.trace[i] \notin {"AES.new", "decrypt"}

C13_Witness ==
    /\ DecryptReturned
    /\ args.enc_bytes.len = 10
    /\ args.media_key_b64 \in ValidKeys
    /\ result = [value |-> None, trace |-> <<"b64decode", "HKDF">>]

\* C14: a payload the sender made of a plaintext P under media key K (PKCS#7
\* padding to 16-byte blocks, AES-256-CBC under the iv and cipher key derived
\* from K, a 10-byte MAC trailer appended), given to decrypt_enc with K,
\* comes back as exactly P.
C14_RoundTrip ==
    (DecryptReturned /\ SenderFile) => result.value = args.sent

C14_Witness ==
    /\ DecryptReturned /\ SenderFile
    /\ args.sent.len = BlockSize + 1
    /\ result.value = args.sent
    /\ result.value.bs[1] = 116


\* ------------------------------------------ properties of the format sniff
\* the buffer starts with none of the magic numbers
Unrecognised(buf) ==
    \A magic \in {OggS, ID3, FFFB, FFF3, RIFF, ftyp} : ~ startswith(buf.head, magic)

\* the extension chosen for the buffer is the one its leading bytes call for
FormatFor(buf, ext) ==
    /\ startswith(buf.head, OggS) => ext = "ogg"
    /\ startswith(buf.head, ID3) => ext = "mp3"
    /\ startswith(buf.head, FFFB) => ext = "mp3"
    /\ startswith(buf.head, FFF3) => ext = "mp3"
    /\ startswith(buf.head, RIFF) => ext = "wav"
    /\ startswith(buf.head, ftyp) => ext = "m4a"
    /\ Unrecognised(buf) => ext = "ogg"

\* C15: format detection is total: every buffer that passes the size test
\* goes on to the transcription with the extension of its leading bytes (OggS
\* ogg; ID3, FF FB, FF F3 mp3; RIFF wav; ftyp m4a; anything else ogg), and
\* the transcription is then called with the file named voice.<extension>.
C15_FormatDetectionTotal ==
    [][ /\ (pc = "sniff" /\ DecryptedUsable(decrypted)) =>
              /\ pc' = "transcribe"
              /\ FormatFor(decrypted, file_extension')
        /\ pc = "transcribe" =>
              /\ FormatFor(decrypted, file_extension)
              /\ calls' = Append(calls, "transcribe")
              /\ audio_name' = Fmt("voice.{file_extension}", file_extension) ]_vars

C15_Witness ==
    /\ pc = "transcribe"
    /\ Unrecognised(decrypted)
    /\ startswith(decrypted.head, <<0, 0, 0, 32>> \o ftyp)
    /\ file_extension = "ogg"

\* C16: a decrypted buffer of fewer than 100 bytes makes the voice
\* resolution return None without a transcription call, and the buffer the
\* transcription is called with has at least 100 bytes.
C16_SmallBufferFails ==
    [][ /\ (pc = "sniff" /\ decrypted.t = "bytes" /\ decrypted.len < 100) =>
              /\ pc' = "parsed"
              /\ parsed_message' = None
              /\ calls' = calls
        /\ pc' = "transcribe" => decrypted'.len >= 100 ]_vars

C16_Witness ==
    /\ pc = "sniff"
    /\ decrypted.t = "bytes"
    /\ decrypted.len = 99


\* -------------------------------------------- properties of the retrieval
ContextReturned ==
    args # Unset /\ args.fn = "get_enhanced_context" /\ result # Unset

SearchReturned ==
    args # Unset /\ args.fn = "search_relevant_context" /\ result # Unset

\* the candidates of the search, none if the store is uninitialised or raises
Candidates == IF args.store.t = "ok" THEN args.store.results ELSE <<>>

\* the candidates within the distance threshold th, in rank order
Survivors(th) == SelectSeq(Candidates, LAMBDA r : r.score <= th)

\* max(0, 1 - d / 2) in two-hundredths, for a distance d in hundredths
Similarity(d) == IF d >= 200 THEN 0 ELSE 200 - d

\* C17: get_enhanced_context never raises: it returns a string; and when no
\* candidate survives (store uninitialised, search raises, search returns
\* nothing, every candidate beyond the distance 1.5) the string is the one
\* fixed, non-empty placeholder "Nenhum contexto especifico encontrado ...".
C17_PlaceholderWhenNoSurvivor ==
    ContextReturned =>
        /\ result.value.t = "str"
        /\ (\A i \in 1..Len(Candidates) : Candidates[i].score > 150) =>
              /\ result.value.s =
                    "Nenhum contexto especifico encontrado na base de conhecimento."
              /\ result.value.len > 0
              /\ result.value.pieces = <<>>

C17_Witness ==
    /\ ContextReturned
    /\ args.store.t = "raise"
    /\ result.value = NoContext

\* C18: whatever the store holds and whatever max_context_length is, the
\* string get_enhanced_context returns has at most max_context_length
\* characters.
C18_WithinBudget ==
    ContextReturned => result.value.len <= args.max_context_length

\* C19: the context lists the surviving candidates in non-increasing
\* similarity order, numbered 1, 2, 3, ... without gaps, and the entries are
\* a prefix of the ranked survivors: the k-th entry is the k-th survivor, so
\* nothing follows a piece that did not fit.
C19_RankedPrefix ==
    ContextReturned =>
        LET pieces == result.value.pieces
            ranked == Survivors(150)
        IN /\ Len(pieces) <= Len(ranked)
           /\ \A k \in 1..Len(pieces) :
                 /\ pieces[k].i = k
                 /\ pieces[k].content = ranked[k].content
           /\ \A k \in 1..(Len(pieces) - 1) :
                 Similarity(ranked[k].score) >= Similarity(ranked[k + 1].score)

C19_Witness ==
    /\ ContextReturned
    /\ Len(Survivors(150)) = 3
    /\ Len(result.value.pieces) = 1
    /\ args.max_context_length = 1000

\* C20: search_relevant_context keeps exactly the candidates whose distance
\* is at most the threshold (1.5 by default) and drops the others, and each
\* kept candidate carries similarity_score = max(0, 1 - distance / 2), which
\* lies in [0, 1] (0..200 in two-hundredths).
C20_FilterAndScore ==
    SearchReturned =>
        LET kept == result.value.xs
        IN /\ \A i \in 1..Len(Candidates) :
                 (Candidates[i].score <= args.score_threshold) <=>
                 (\E j \in 1..Len(kept) : kept[j].content = Candidates[i].content)
           /\ \A j \in 1..Len(kept) :
                 /\ kept[j].similarity_score \in 0..200
                 /\ \E i \in 1..Len(Candidates) :
                       /\ Candidates[i].content = kept[j].content
                       /\ kept[j].similarity_score = Similarity(Candidates[i].score)
           /\ Len(kept) <= Len(Candidates)

C20_Witness ==
    /\ SearchReturned
    /\ args.score_threshold = 150
    /\ Len(Candidates) = 5
    /\ Len(result.value.xs) = 3
    /\ result.value.xs[3].similarity_score = 50


\* ------------------------------- properties of persistence and the reply
CountCalls(name) == Len(SelectSeq(calls, LAMBDA c : c = name))

\* create_ocorrencia was called for the current event and stored nothing
PersistFailed ==
    Called("create_ocorrencia") /\ ocorrencias = at_start.ocorrencias

\* C21: when create_ocorrencia fails for a webhook event, the failure stays
\* inside process_message_event's inner handler (nothing reaches the outer
\* one), Stage A, the retrieval and Stage B have been called once each and are
\* not called again, and send_message is attempted exactly once, after the
\* failed save.
C21_PersistFailureIsolated ==
    PersistFailed =>
        /\ raised = Unset
        /\ CascadeCalls = <<"llmA", "search", "llmB">>
        /\ pc \in {"send", "done"}
        /\ CountCalls("create_ocorrencia") = 1
        /\ CountCalls("send_message") = (IF pc = "done" THEN 1 ELSE 0)

C21_Witness ==
    /\ PersistFailed
    /\ pc = "done"
    /\ calls[Len(calls)] = "send_message"
    /\ Len(sent) = Len(at_start.sent) + 1

\* the /send-message request has been answered
EndpointReturned ==
    args # Unset /\ args.fn = "send_message_endpoint" /\ result # Unset

\* C22: when create_ocorrencia fails in /send-message, the message is still
\* handed to the gateway and the endpoint answers with its normal response,
\* which carries the classification, not with an error.
C22_EndpointSurvivesPersistFailure ==
    (EndpointReturned /\ Called("create_ocorrencia") /\ ocorrencias = <<>>) =>
        /\ Called("send_message")
        /\ result.t = "dict"
        /\ HasKeys(result, {"classification"})


\* ------------------------------------------ properties of Stage B's parser
ParseReturned == args # Unset /\ args.fn = "parse" /\ result # Unset

FirstOpen == SetMin(Positions(args.text.toks, LB))
LastClose == SetMax(Positions(args.text.toks, RB))

NoBrace == Positions(args.text.toks, LB) = {} \/ Positions(args.text.toks, RB) = {}

\* the text from the first "{" to the last "}" is a JSON object
ValidObject ==
    /\ ~ NoBrace
    /\ FirstOpen < LastClose
    /\ \A i \in (FirstOpen + 1)..(LastClose - 1) : IsMember(args.text.toks[i])

\* the value of key k in that object, the last one if the key is repeated
Field(k) ==
    LET at == {i \in (FirstOpen + 1)..(LastClose - 1) : args.text.toks[i].k = k}
    IN args.text.toks[SetMax(at)].v

Present(k) ==
    \E i \in (FirstOpen + 1)..(LastClose - 1) : args.text.toks[i].k = k

RequiredPresent ==
    Present("canal") /\ Present("nivel_urgencia") /\ Present("justificativa")

\* int(nivel_urgencia) or float(confidence_score) raises
Unconvertible ==
    \/ IsExc(py_int(Field("nivel_urgencia")))
    \/ Present("confidence_score") /\ IsExc(py_float(Field("confidence_score")))

\* the fields of the object, canal wrapped in a list if it is none and
\* nivel_urgencia through int()
ReturnsFields ==
    /\ result.value.t = "EmergencyClassification"
    /\ result.value.canal = (IF Field("canal").t = "list" THEN Field("canal").xs
                             ELSE <<Field("canal")>>)
    /\ result.value.nivel_urgencia = py_int(Field("nivel_urgencia")).n
    /\ result.value.justificativa = Field("justificativa")

\* C23 as stated: the parser raises exactly when no brace is found, the text
\* between the first "{" and the last "}" is not valid JSON, or one of canal,
\* nivel_urgencia, justificativa is absent; otherwise it returns the fields.
C23_ParserContract ==
    ParseReturned =>
        IF NoBrace \/ ~ ValidObject \/ ~ RequiredPresent
        THEN IsExc(result.value)
        ELSE ReturnsFields

\* C23, amended: the parser also raises when nivel_urgencia cannot be
\* converted by int() or a confidence_score that is present cannot be
\* converted by float(); otherwise it returns the fields of the object
\* between the first "{" and the last "}", whatever surrounds it.
C23_ParserContractWithConversion ==
    ParseReturned =>
        IF NoBrace \/ ~ ValidObject \/ ~ RequiredPresent
        THEN IsExc(result.value)
        ELSE IF Unconvertible THEN IsExc(result.value)
        ELSE ReturnsFields

C23_Witness ==
    /\ ParseReturned
    /\ ValidObject /\ RequiredPresent /\ ~ Unconvertible
    /\ FirstOpen > 1 /\ LastClose < Len(args.text.toks)
    /\ ReturnsFields


\* ---------------------------------------- properties of the stored record
\* C24: the row handed to create_ocorrencia for a classified report carries
\* what the cascade produced for it: the text, Stage B's urgency level, and
\* the confidence of the cascade (Stage B's confidence_score or Stage A's
\* confianca).
C24_RecordCarriesCascadeValues ==
    (pc = "send" /\ ocorrencias # at_start.ocorrencias) =>
        LET row == ocorrencias[Len(ocorrencias)]
        IN /\ row.situation = parsed_message
           /\ row.urgency_level = urgency_result.nivel_urgencia
           /\ row.confidence_score \in
                 {urgency_result.confidence_score, emergency_result.confianca}


\* ------------------------------ properties of Stage B without a context
\* C29: when the retrieval fails (store uninitialised, search raises) or
\* finds nothing, the prompt of Stage B carries the placeholder as context,
\* the language model is still called, and when its answer parses Stage B's
\* result is that parsed answer, not the fallback.
C29_NoContextStillClassifies ==
    [][ pc = "llmB" =>
          /\ kb \in {"uninit", "raise"} =>
                prompt.context.s =
                    "Nenhum contexto especifico encontrado na base de conhecimento."
          /\ prompt.context = NoContext =>
                /\ calls' = Append(calls, "llmB")
                /\ caughtB' = Unset =>
                      \E resp \in LLMResponsesB :
                         /\ ~ resp.raises
                         /\ urgency_result' = EmergencyOutputParser_parse(resp.content) ]_vars

C29_Witness ==
    /\ pc = "fuse"
    /\ kb = "raise"
    /\ caughtB = Unset
    /\ CascadeCalls = <<"llmA", "search", "llmB">>
    /\ urgency_result.nivel_urgencia = 3

\* ------------------------------------------------------- formatar_agencias
FormatarReturned ==
    args # Unset /\ args.fn = "formatar_agencias" /\ result # Unset

\* the names of a formatted text, in order, and the separators between them
NamesOf(pieces) ==
    [i \in 1..((Len(pieces) + 1) \div 2) |-> pieces[2 * i - 1]]
SeparatorsOf(pieces) ==
    [i \in 1..(Len(pieces) \div 2) |-> pieces[2 * i]]

\* C26: formatar_agencias returns the empty string for an empty list, the
\* single name for one element, "A e B" for two, and for n >= 3 the first
\* n-1 names joined by ", " followed by " e " and the last name; every input
\* name appears exactly once and in input order.
C26_FormatarAgencias ==
    FormatarReturned =>
       LET xs == args.agencias
           n == Len(xs)
           out == result.value
       IN /\ n = 0 => out = <<>>
          /\ n = 1 => out = <<xs[1].s>>
          /\ n = 2 => out = <<xs[1].s, " e ", xs[2].s>>
          /\ n >= 3 =>
                /\ Len(out) = 2 * n - 1
                /\ \A i \in 1..(n - 2) : out[2 * i] = ", "
                /\ out[2 * n - 2] = " e "
                /\ out[2 * n - 1] = xs[n].s
          /\ n >= 1 =>
                /\ NamesOf(out) = [i \in 1..n |-> xs[i].s]
                /\ \A i \in 1..Len(SeparatorsOf(out)) :
                      SeparatorsOf(out)[i] \in {", ", " e "}

C26_Witness ==
    /\ FormatarReturned
    /\ args.agencias = <<S("samu"), S("policia"), S("bombeiro")>>
    /\ result.value = <<"samu", ", ", "policia", " e ", "bombeiro">>

\* --------------------------------------------------------- knowledge base
Constructed == args' # Unset /\ args'.fn = "UrgencyClassifier" /\ args'.init_ok
AddReturned == args' # Unset /\ args'.fn = "add_documents_to_knowledge_base"

\* C27: constructing UrgencyClassifier populates the initial knowledge base
\* only when the store holds no documents; constructing it against an
\* already populated store adds no chunks.
C27_PopulateOnlyWhenEmpty ==
    [][ Constructed /\ self.collection # <<>> =>
            self'.collection = self.collection ]_vars

\* C28: add_documents_to_knowledge_base returns True exactly when the chunks
\* were added to the vector store; whenever it returns False the store
\* content is unchanged.
C28_TrueIffAdded ==
    [][ AddReturned =>
          /\ result'.value = TRUE <=>
                self'.collection = self.collection \o doc_objects(args'.documents)
                /\ args'.documents # <<>>
          /\ result'.value = FALSE => self'.collection = self.collection ]_vars

\* ---------------------------------------------------------- DatabaseClient
PoolClient == tasks # Unset /\ self # Unset /\ "created" \in DOMAIN self
OpenPools == { i \in 1..Len(self.created) : self.created[i] = "open" }
BeingCreated == { c \in Callers : tasks[c].pc = "create_pool" }

\* C30: under any interleaving of callers of connect, get_connection and
\* disconnect, DatabaseClient holds at most one connection pool at a time:
\* no second pool is created while one exists or is being created, and no
\* created pool is overwritten without having been closed.
C30_AtMostOnePool ==
    PoolClient =>
       /\ Cardinality(OpenPools) + Cardinality(BeingCreated) <= 1
       /\ \A i \in OpenPools : self.pool = Pool(i)

\* ------------------------------------------------------ concurrent events
Stepped(c) == tasks'[c] # tasks[c]
Others(c) == Coroutines \ {c}

\* C25: for any two inbound events processed in any interleaving, with no
\* knowledge-base write in between, the classification of each event depends
\* only on its own text and the oracle answers to it; processing one event
\* changes no state that the other reads.
C25_EventsIndependent ==
    [][ \A c \in Coroutines :
          Stepped(c) =>
             /\ self' = self
             /\ \A o \in Others(c) : tasks'[o] = tasks[o]
             /\ tasks'[c].classificacao # Unset =>
                   /\ tasks'[c].classificacao =
                         classificar_emergencia(tasks'[c].parsed_message,
                                                tasks'[c].respA, tasks'[c].respB)
                   /\ tasks'[c].prompt =
                         UrgencyPrompt(self.knowledge_base[tasks'[c].parsed_message],
                                       tasks'[c].parsed_message,
                                       Emergency_classify_emergency(tasks'[c].respA)) ]_vars

C25_Witness ==
    /\ tasks # Unset
    /\ tasks["first"].pc = "send"
    /\ tasks["second"].pc = "persist"
    /\ Len(ocorrencias) = 1
    /\ tasks["first"].parsed_message = S("Minha casa esta em chamas")
    /\ tasks["second"].parsed_message = S("socorro, acidente na esquina")
    /\ tasks["first"].classificacao.nivel_urgencia = 5
    /\ tasks["second"].classificacao.nivel_urgencia = 4

====
